---- MODULE Spec2Model ----
(***************************************************************************)
(* Model of the parallel search driver of libdg_mcts (lib.rs): the worker  *)
(* loop of predict_worker, the Batcher and Batch::forward, the event queue *)
(* and the probe / insert protocol of the search tree.                     *)
(*                                                                         *)
(* tree.rs is not part of the sources at hand; probe and insert are        *)
(* modelled after sections 3, 4.1 and 4.2 of the specification.            *)
(***************************************************************************)
EXTENDS Integers, Sequences, FiniteSets, TLC

(* ---------------------------- bounds ----------------------------------- *)

\* number of descents that may return Found in one search
MaxEvents == 2

\* the worker threads of one search: two, the fewest that race
Workers == {1, 2}

\* the index of the pass move in a policy, the last one (policy[361] in the
\* program; the board of the model is scaled down to a single point)
Pass == 1

Moves == 0..Pass

\* the policies that are tried, as the set of moves with a finite prior: every
\* move, the pass move alone, and none (a response that is -inf everywhere)
Policies == {Moves, {Pass}, {}}

(* ---------------------------- state ------------------------------------ *)

VARIABLES
    tree,            \* the search tree: path from the root |-> node
    event_queue,     \* ThreadContext.event_queue (SegQueue<Event>)
    list,            \* Batcher.list (BatcherList behind the mutex)
    num_batches,     \* Batcher.num_batches
    max_batches,     \* Batcher.max_batches
    max_batch_size,  \* Batcher.max_batch_size
    epoch,           \* ThreadContext.epoch
    wk,              \* per worker: position in predict_worker and its locals
    next_id,         \* number of events created so far, plus one
    popped_inserts,  \* number of Insert events taken from the event queue
    main,            \* predict_aux: the caller's position and its locals
    starting_tree,   \* predict_aux: the starting_tree argument
    result,          \* predict_aux: what it returned
    board,           \* the board handed to the policy functions
    call,            \* the policy function being applied and its values
    searches,        \* Pool.searches: the search contexts the workers see
    searches_count,  \* Pool.searches_count
    callers,         \* per caller of Pool::enqueue: its position and locals
    pool_wk,         \* per pool worker: the search contexts it holds a clone of
    channel,         \* per search: the messages sent on its channel
    roots,           \* per search: the number of changes made to its root
    shared_context,  \* Pool.shared_context: is_running and the running workers
    num_games,       \* self_play: the num_games argument
    config,          \* self_play: config::NUM_GAMES and config::NUM_THREADS
    processed,       \* self_play: the number of games taken so far
    num_parallel,    \* self_play: the number of game threads still running
    game_threads,    \* self_play: per game thread, its position and locals
    spawned,         \* self_play: the game threads spawned so far
    played,          \* self_play: the games played to the end
    receiver,        \* self_play: the receiving end of the channel
    remaining        \* policy_play: the games that remain to be started

\* the state of the search
search_vars == <<tree, event_queue, list, num_batches, max_batches, max_batch_size,
                 epoch, wk, next_id, popped_inserts>>

\* the state of the caller of the search
driver_vars == <<main, starting_tree, result>>

\* the state of the policy preprocessor
policy_vars == <<board, call>>

\* the state of the worker pool
pool_vars == <<searches, searches_count, callers, pool_wk, channel, roots,
               shared_context>>

\* the state of self_play
self_play_vars == <<num_games, config, processed, num_parallel, game_threads,
                    spawned, played, receiver, remaining>>

vars == <<tree, event_queue, list, num_batches, max_batches, max_batch_size,
          epoch, wk, next_id, popped_inserts, main, starting_tree, result,
          board, call, searches, searches_count, callers, pool_wk, channel,
          roots, shared_context, num_games, config, processed, num_parallel,
          game_threads, spawned, played, receiver, remaining>>

\* Option::None
None == [some |-> FALSE]

\* no caller is modelled: the search runs on the root it is given
DriverIdle == main = [pc |-> "none"] /\ starting_tree = None /\ result = None

\* no policy function is applied
PolicyIdle == board = <<>> /\ call = [pc |-> "none"]

\* no pool is modelled
PoolIdle ==
    /\ searches = {} /\ searches_count = 0 /\ callers = <<>>
    /\ pool_wk = <<>> /\ channel = <<>> /\ roots = <<>>
    /\ shared_context = <<>>

\* no game is played
SelfPlayIdle ==
    /\ num_games = 0 /\ config = <<>> /\ processed = 0 /\ num_parallel = 0
    /\ game_threads = <<>> /\ spawned = 0 /\ played = 0 /\ receiver = "none"
    /\ remaining = 0

\* the parts of the program a specification of the search leaves out
OutsideSearch == DriverIdle /\ PolicyIdle /\ PoolIdle /\ SelfPlayIdle

(* ---------------------------- the tree --------------------------------- *)

\* an edge of the children table: real visits, virtual-loss visits, child slot
NewEdge == [count |-> 0, vcount |-> 0, ptr |-> "null"]

\* tree::Node::new
NewNode(prior) ==
    [prior |-> prior, disqualified |-> {}, total_count |-> 0, vtotal_count |-> 0,
     children |-> [m \in Moves |-> NewEdge]]

Prefix(path, i) == SubSeq(path, 1, i)

\* a bug: selection looks at every edge
CandidatesAll(node) == Moves

\* the edges PUCT selection may return: finite prior and not disqualified
Candidates(node) == {m \in Moves : m \in node.prior /\ m \notin node.disqualified}

\* selection adds one virtual loss to the edge and to the node
AddVirtualLoss(t, path, m) ==
    [t EXCEPT ![path].vtotal_count = @ + 1,
              ![path].children[m].vcount = @ + 1]

RemoveVirtualLoss(t, path, m) ==
    [t EXCEPT ![path].vtotal_count = @ - 1,
              ![path].children[m].vcount = @ - 1]

\* undo the virtual losses of the first k plies of a trace
RECURSIVE UndoTrace(_, _, _)
UndoTrace(t, trace, k) ==
    IF k = 0 THEN t
    ELSE UndoTrace(RemoveVirtualLoss(t, Prefix(trace, k - 1), trace[k]), trace, k - 1)

\* the real update of one ply: one virtual loss becomes one real visit
Update(t, path, m) ==
    [t EXCEPT ![path].total_count = @ + 1,
              ![path].children[m].count = @ + 1,
              ![path].children[m].vcount = @ - 1]

\* publish the leaf into the reserved child slot
Publish(t, trace, prior) ==
    LET parent == Prefix(trace, Len(trace) - 1)
        m == trace[Len(trace)]
    IN  [t EXCEPT ![parent].children[m].ptr = "node"] @@ (trace :> NewNode(prior))

(* ---------------------------- events ----------------------------------- *)

NoEvent == [id |-> 0, kind |-> "None", trace |-> <<>>]

\* Event::predict
EventPredict(id, trace) == [id |-> id, kind |-> "Predict", trace |-> trace]

\* Event::into_pending: (previous kind, event)
IntoPending(event) == <<event.kind, [event EXCEPT !.kind = "Pending"]>>

\* a bug: the event keeps the kind it has in the batcher
IntoInsertKeepsKind(event) == <<event.kind, event>>

\* a bug: the kind is not changed to Insert, the event is a Predict event again
IntoInsertAsPredict(event) == <<event.kind, [event EXCEPT !.kind = "Predict"]>>

\* Event::into_insert
IntoInsert(event) == <<event.kind, [event EXCEPT !.kind = "Insert"]>>

(* ---------------------------- time control ----------------------------- *)

TimeStrategyResults ==
    {[tag |-> "NotExpired", remaining |-> r] : r \in 0..MaxEvents}
        \cup {[tag |-> t, remaining |-> 0] : t \in {"NotExtended", "Expired", "Extended"}}

Count(node, m) == node.children[m].count

\* children.argmax_count: most real visits, ties to the lower index
ArgmaxCount(node) ==
    CHOOSE m \in DOMAIN node.children :
        \A o \in DOMAIN node.children : Count(node, o) < Count(node, m)
                          \/ (Count(node, o) = Count(node, m) /\ m <= o)

\* children.nonzero: the edges that have been touched
Nonzero(node) ==
    {m \in DOMAIN node.children : Count(node, m) > 0 \/ node.children[m].vcount > 0}

RECURSIVE Top2(_, _, _, _)
Top2(node, top_1, top_2, todo) ==
    IF todo = {} THEN top_2
    ELSE LET i == CHOOSE x \in todo : \A y \in todo : x <= y
         IN  Top2(node, top_1,
                  IF i # top_1 /\ Count(node, i) > Count(node, top_2) THEN i ELSE top_2,
                  todo \ {i})

\* a bug: the search for the runner-up starts at child 0 whatever top_1 is
min_promote_rolloutsFromZero(root) ==
    LET top_1 == ArgmaxCount(root)
        top_2 == Top2(root, top_1, 0, Nonzero(root))
        count_1 == Count(root, top_1)
        count_2 == Count(root, top_2)
    IN  IF count_1 > count_2 THEN count_1 - count_2 ELSE 0

min_promote_rollouts(root) ==
    LET top_1 == ArgmaxCount(root)
        top_2 == Top2(root, top_1, IF top_1 = 0 THEN 1 ELSE 0, Nonzero(root))
        count_1 == Count(root, top_1)
        count_2 == Count(root, top_2)
    IN  IF count_1 > count_2 THEN count_1 - count_2 ELSE 0

\* a bug: NotExtended is taken for Extended and the search goes on
is_doneNotExtended(root, res) ==
    IF root.total_count = 0 THEN FALSE
    ELSE CASE res.tag = "NotExpired" -> min_promote_rollouts(root) > res.remaining
           [] res.tag \in {"Extended", "NotExtended"} -> FALSE
           [] OTHER -> TRUE

\* a bug: >= in the place of > in the comparison with the remaining rollouts
is_doneAtLeast(root, res) ==
    IF root.total_count = 0 THEN FALSE
    ELSE CASE res.tag = "NotExpired" -> min_promote_rollouts(root) >= res.remaining
           [] res.tag = "Extended" -> FALSE
           [] OTHER -> TRUE

is_done(root, res) ==
    IF root.total_count = 0 THEN FALSE
    ELSE CASE res.tag = "NotExpired" -> min_promote_rollouts(root) > res.remaining
           [] res.tag = "Extended" -> FALSE
           [] OTHER -> TRUE

(* ---------------------------- the batcher ------------------------------ *)

\* number of feature values of one position: a bound of the model, standing
\* for features::FEATURE_SIZE (NUM_FEATURES * 361)
FEATURE_SIZE == 2

\* the features of one event: FEATURE_SIZE values, here tagged with the event
FeaturesOf(event) == [i \in 1..FEATURE_SIZE |-> event.id]

\* the i-th block of FEATURE_SIZE values of a flat array of features (0 where
\* the array is too short)
Block(features, i) ==
    [k \in 1..FEATURE_SIZE |->
        IF (i - 1) * FEATURE_SIZE + k <= Len(features)
        THEN features[(i - 1) * FEATURE_SIZE + k] ELSE 0]

\* Predictor::predict(features, batch_size): one response per position, in the
\* order of the positions; a response is written as the block of features it
\* was computed from
predict(features, batch_size) == [i \in 1..batch_size |-> Block(features, i)]

\* a bug: the tail is copied and not removed
SplitOffKeep(seq, at) == <<seq, SubSeq(seq, at + 1, Len(seq))>>

\* Vec::split_off(at): <<what stays, what is returned>>
SplitOff(seq, at) == <<SubSeq(seq, 1, at), SubSeq(seq, at + 1, Len(seq))>>

\* a bug: the features are put in front of the pending features
BatcherPushFront(l, event, features) ==
    [features |-> features \o l.features, events |-> Append(l.events, event)]

\* Batcher::push, with the mutex held
BatcherPush(l, event, features) ==
    [features |-> l.features \o features, events |-> Append(l.events, event)]

\* a bug: the whole pending list is taken
SplitIndexZero(size, mbs) == 0

\* the index get_batch splits the pending list at
SplitIndex(size, mbs) == IF size >= mbs THEN size - mbs ELSE 0

\* a bug: an unconditional fetch_add in the place of the compare-exchange
FetchAddAlways(value, current, new) == {[ok |-> TRUE, value |-> value + 1]}

\* AtomicUsize::compare_exchange_weak(current, new): the values it may leave
\* behind and whether it reports success; it may fail spuriously
CompareExchangeWeak(value, current, new) ==
    IF value = current
    THEN {[ok |-> TRUE, value |-> new], [ok |-> FALSE, value |-> value]}
    ELSE {[ok |-> FALSE, value |-> value]}

(* ---------------------------- initial state ---------------------------- *)

\* a worker at the head of its loop; context: it owns a clone of the
\* ThreadContext, and with it a strong reference to the root; guards: the lock
\* guards it holds, "read" of the global readers-writer lock and "list" of
\* the batcher's mutex (followed in SpecLocks only)
Idle ==
    [pc |-> "while", event |-> NoEvent, batch |-> <<>>, features |-> <<>>,
     responses |-> <<>>, current |-> 0,
     site |-> "none", trace |-> <<>>, ply |-> 0, context |-> TRUE, guards |-> {}]

\* a bug: the worker goes round its loop again where it should return
ExitAgain == Idle

\* a bug: the clone of the context outlives the worker
ExitLeaked == [Idle EXCEPT !.pc = "done"]

\* a worker that has returned from predict_worker: its context is dropped
Exit == [Idle EXCEPT !.pc = "done", !.context = FALSE]

Init ==
    /\ \E prior \in Policies : tree = (<<>> :> NewNode(prior))
    /\ event_queue = <<>>
    /\ list = [features |-> <<>>, events |-> <<>>]
    /\ num_batches = 0
    /\ max_batches \in 1..Cardinality(Workers)
    /\ max_batch_size \in 1..MaxEvents
    /\ epoch = 0
    /\ wk = [w \in Workers |-> Idle]
    /\ next_id = 1
    /\ popped_inserts = 0
    /\ OutsideSearch

(* ---------------------------- predict_worker --------------------------- *)

Others == <<max_batches, max_batch_size, driver_vars, policy_vars, pool_vars,
           self_play_vars>>

\* while !global_rwlock::read(|| time_control::is_done(root, &time_strategy)):
\* the search is done and the worker returns
WhileDone(w) ==
    /\ wk[w].pc = "while"
    /\ \E res \in TimeStrategyResults : is_done(tree[<<>>], res)
    /\ wk' = [wk EXCEPT ![w] = Exit]
    /\ UNCHANGED <<tree, event_queue, list, num_batches, epoch, next_id,
                   popped_inserts, Others>>

\* the search is not done: event_queue.pop().map(|event| event.into_pending())
\* and the match on it. (is_done only reads the root and may answer false in
\* every state, so the check is taken together with the pop that follows it.)
WhilePop(w) ==
    /\ wk[w].pc = "while"
    /\ \E res \in TimeStrategyResults : ~is_done(tree[<<>>], res)
    /\ IF event_queue = <<>>
       THEN /\ wk' = [wk EXCEPT ![w].pc = "get_batch", ![w].site = "none"]
            /\ UNCHANGED <<event_queue, popped_inserts>>
       ELSE LET r == IntoPending(Head(event_queue))
            IN  /\ event_queue' = Tail(event_queue)
                /\ wk' = [wk EXCEPT ![w].event = r[2],
                                    ![w].pc = CASE r[1] = "Predict" -> "push"
                                                [] r[1] = "Insert" -> "insert"
                                                [] OTHER -> "unreachable"]
                /\ popped_inserts' =
                       IF r[1] = "Insert" THEN popped_inserts + 1 ELSE popped_inserts
    /\ UNCHANGED <<tree, list, num_batches, epoch, next_id, Others>>

\* push_and_get_batch: self.push(event, features)
Push(w) ==
    /\ wk[w].pc = "push"
    /\ list' = BatcherPush(list, wk[w].event, FeaturesOf(wk[w].event))
    /\ wk' = [wk EXCEPT ![w].event = NoEvent, ![w].pc = "get_batch",
                        ![w].site = "predict"]
    /\ UNCHANGED <<tree, event_queue, num_batches, epoch, next_id,
                   popped_inserts, Others>>

\* a bug: push_and_get_batch asks for any batch, as the None arm does
MinBatchSizeOne(w) == 1

\* the minimum size either call site of get_batch asks for
MinBatchSize(w) == IF wk[w].site = "none" THEN 1 ELSE max_batch_size

\* where predict_worker continues when get_batch returned None
AfterNone(w) == IF wk[w].site = "none" THEN "probe" ELSE "while"

\* a bug: no capacity check after the load
GetBatchLoadNoCheck(w) ==
    /\ wk[w].pc = "get_batch"
    /\ wk' = [wk EXCEPT ![w].current = num_batches, ![w].pc = "get_batch_locked"]
    /\ UNCHANGED <<tree, event_queue, list, num_batches, epoch, next_id,
                   popped_inserts, Others>>

\* get_batch: the relaxed load of num_batches and the capacity check
GetBatchLoad(w) ==
    /\ wk[w].pc = "get_batch"
    /\ LET current == num_batches
       IN  wk' = IF current >= max_batches
                 THEN [wk EXCEPT ![w] = [Idle EXCEPT !.pc = AfterNone(w)]]
                 ELSE [wk EXCEPT ![w].current = current, ![w].pc = "get_batch_locked"]
    /\ UNCHANGED <<tree, event_queue, list, num_batches, epoch, next_id,
                   popped_inserts, Others>>

\* get_batch with the list mutex held: the size check, the compare-exchange
\* and the split of the pending list; kept: the guards the worker still holds
\* when get_batch has returned
GetBatchUnderLock(w, kept) ==
    /\ LET size == Len(list.events)
           current == wk[w].current
       IN  IF size >= MinBatchSize(w)
           THEN \E cas \in CompareExchangeWeak(num_batches, current, current + 1) :
                  /\ num_batches' = cas.value
                  /\ IF cas.ok
                     THEN LET split_index == SplitIndex(size, max_batch_size)
                              f == SplitOff(list.features, split_index * FEATURE_SIZE)
                              e == SplitOff(list.events, split_index)
                          IN  /\ list' = [features |-> f[1], events |-> e[1]]
                              /\ wk' = [wk EXCEPT ![w] =
                                            [Idle EXCEPT !.pc = "forward", !.batch = e[2],
                                                         !.features = f[2],
                                                         !.guards = kept]]
                     ELSE /\ wk' = [wk EXCEPT ![w] = [Idle EXCEPT !.pc = AfterNone(w)]]
                          /\ UNCHANGED list
           ELSE /\ wk' = [wk EXCEPT ![w] = [Idle EXCEPT !.pc = AfterNone(w)]]
                /\ UNCHANGED <<list, num_batches>>
    /\ UNCHANGED <<tree, event_queue, epoch, next_id, popped_inserts, Others>>

\* get_batch: under the list mutex, the size check, the compare-exchange and
\* the split of the pending list
GetBatchLocked(w) ==
    /\ wk[w].pc = "get_batch_locked"
    /\ GetBatchUnderLock(w, {})

\* a bug: forward loses the responses of the predictor
ForwardPredictNone(w) ==
    /\ wk[w].pc = "forward"
    /\ wk' = [wk EXCEPT ![w].pc = "fetch_sub", ![w].batch = <<>>, ![w].responses = <<>>]
    /\ UNCHANGED <<tree, event_queue, list, num_batches, epoch, next_id,
                   popped_inserts, Others>>

\* Batch::forward: server.predict(&self.features, self.events.len()) returns
ForwardPredict(w) ==
    /\ wk[w].pc = "forward"
    /\ wk' = [wk EXCEPT ![w].pc = "fetch_sub",
                        ![w].responses = predict(wk[w].features, Len(wk[w].batch))]
    /\ UNCHANGED <<tree, event_queue, list, num_batches, epoch, next_id,
                   popped_inserts, Others>>

\* a bug: forward returns without releasing its slot
ForwardNoRelease(w) ==
    /\ wk[w].pc = "fetch_sub"
    /\ wk' = [wk EXCEPT ![w].pc = "requeue"]
    /\ UNCHANGED <<tree, event_queue, list, num_batches, epoch, next_id,
                   popped_inserts, Others>>

\* Batch::forward: self.num_batches.fetch_sub(1, Ordering::Release)
ForwardFetchSub(w) ==
    /\ wk[w].pc = "fetch_sub"
    /\ num_batches' = num_batches - 1
    /\ wk' = [wk EXCEPT ![w].pc = "requeue"]
    /\ UNCHANGED <<tree, event_queue, list, epoch, next_id, popped_inserts, Others>>

\* a bug: only the first event of the batch is queued again
RequeueFirstOnly(w) ==
    /\ wk[w].pc = "requeue"
    /\ event_queue' = IF wk[w].batch = <<>> THEN event_queue
                      ELSE Append(event_queue, IntoInsert(Head(wk[w].batch))[2])
    /\ wk' = [wk EXCEPT ![w] = Idle]
    /\ UNCHANGED <<tree, list, num_batches, epoch, next_id, popped_inserts, Others>>

\* for (event, response) in events.zip(responses):
\*     event_queue.push(event.into_insert(response).1)
Requeue(w) ==
    /\ wk[w].pc = "requeue"
    /\ IF wk[w].batch = <<>>
       THEN /\ wk' = [wk EXCEPT ![w] = Idle]
            /\ UNCHANGED event_queue
       ELSE /\ event_queue' = Append(event_queue, IntoInsert(Head(wk[w].batch))[2])
            /\ wk' = IF Len(wk[w].batch) = 1
                     THEN [wk EXCEPT ![w] = Idle]
                     ELSE [wk EXCEPT ![w].batch = Tail(@), ![w].responses = Tail(@)]
    /\ UNCHANGED <<tree, list, num_batches, epoch, next_id, popped_inserts, Others>>

\* tree::probe, one ply of the descent: select an edge and add its virtual loss,
\* then follow the child, reserve the empty slot (Found) or give up (Conflict);
\* with no edge to select the descent ends with NoResult
ProbePly(w) ==
    /\ wk[w].pc = "probe"
    /\ LET path == wk[w].trace
           node == tree[path]
       IN  IF Candidates(node) = {}
           THEN \* ProbeResult::NoResult => return
                /\ tree' = UndoTrace(tree, path, Len(path))
                /\ wk' = [wk EXCEPT ![w] = Exit]
                /\ UNCHANGED next_id
           ELSE \E m \in Candidates(node) :
                  LET trace == Append(path, m)
                      selected == AddVirtualLoss(tree, path, m)
                      ptr == node.children[m].ptr
                  IN  CASE ptr = "node" ->
                             /\ tree' = selected
                             /\ wk' = [wk EXCEPT ![w].trace = trace]
                             /\ UNCHANGED next_id
                        [] ptr = "null" ->
                             \* ProbeResult::Found(trace)
                             /\ next_id <= MaxEvents
                             /\ tree' = [selected EXCEPT ![path].children[m].ptr = "expanding"]
                             /\ wk' = [wk EXCEPT ![w].trace = <<>>,
                                                 ![w].event = EventPredict(next_id, trace),
                                                 ![w].pc = "found"]
                             /\ next_id' = next_id + 1
                        [] OTHER ->
                             \* ProbeResult::Conflict => thread::yield_now()
                             /\ tree' = UndoTrace(selected, trace, Len(trace))
                             /\ wk' = [wk EXCEPT ![w] = Idle]
                             /\ UNCHANGED next_id
    /\ UNCHANGED <<event_queue, list, num_batches, epoch, popped_inserts, Others>>

\* a bug: the event of a Found probe is pushed twice
PushFoundTwice(w) ==
    /\ wk[w].pc = "found"
    /\ event_queue' = event_queue \o <<wk[w].event, wk[w].event>>
    /\ wk' = [wk EXCEPT ![w] = Idle]
    /\ UNCHANGED <<tree, list, num_batches, epoch, next_id, popped_inserts, Others>>

\* ProbeResult::Found(trace) => event_queue.push(Event::predict(board, trace))
PushFound(w) ==
    /\ wk[w].pc = "found"
    /\ event_queue' = Append(event_queue, wk[w].event)
    /\ wk' = [wk EXCEPT ![w] = Idle]
    /\ UNCHANGED <<tree, list, num_batches, epoch, next_id, popped_inserts, Others>>

\* a bug: after the first insert the Insert arm drops the event without
\* calling tree::insert
InsertOnlyFirst(w) ==
    /\ wk[w].pc = "insert"
    /\ IF epoch = 0
       THEN /\ \E policy \in Policies :
                 tree' = Publish(tree, wk[w].event.trace, policy)
            /\ wk' = [wk EXCEPT ![w].pc = "insert_update",
                                ![w].ply = Len(wk[w].event.trace)]
            /\ UNCHANGED epoch
       ELSE /\ wk' = [wk EXCEPT ![w] = Idle]
            /\ epoch' = epoch + 1
            /\ UNCHANGED tree
    /\ UNCHANGED <<event_queue, list, num_batches, next_id, popped_inserts, Others>>

\* a bug: the epoch is released before tree::insert, as well as after it
InsertPublishEpochFirst(w) ==
    /\ wk[w].pc = "insert"
    /\ epoch' = epoch + 1
    /\ \E policy \in Policies :
         tree' = Publish(tree, wk[w].event.trace, policy)
    /\ wk' = [wk EXCEPT ![w].pc = "insert_update", ![w].ply = Len(wk[w].event.trace)]
    /\ UNCHANGED <<event_queue, list, num_batches, next_id, popped_inserts, Others>>

\* the Insert arm: the policy is rebuilt and tree::insert publishes the leaf
InsertPublish(w) ==
    /\ wk[w].pc = "insert"
    /\ \E policy \in Policies :
         tree' = Publish(tree, wk[w].event.trace, policy)
    /\ wk' = [wk EXCEPT ![w].pc = "insert_update", ![w].ply = Len(wk[w].event.trace)]
    /\ UNCHANGED <<event_queue, list, num_batches, epoch, next_id,
                   popped_inserts, Others>>

\* tree::insert walks the trace in reverse, one ply at a time; after the last
\* ply the arm ends with context.epoch.fetch_add(1, Ordering::Release)
InsertUpdate(w) ==
    /\ wk[w].pc = "insert_update"
    /\ LET trace == wk[w].event.trace
           k == wk[w].ply
       IN  /\ tree' = Update(tree, Prefix(trace, k - 1), trace[k])
           /\ IF k = 1
              THEN /\ wk' = [wk EXCEPT ![w] = Idle]
                   /\ epoch' = epoch + 1
              ELSE /\ wk' = [wk EXCEPT ![w].ply = k - 1]
                   /\ UNCHANGED epoch
    /\ UNCHANGED <<event_queue, list, num_batches, next_id, popped_inserts, Others>>

Next ==
    \E w \in Workers :
        \/ WhileDone(w)
        \/ WhilePop(w)
        \/ Push(w)
        \/ GetBatchLoad(w)
        \/ GetBatchLocked(w)
        \/ ForwardPredict(w)
        \/ ForwardFetchSub(w)
        \/ Requeue(w)
        \/ ProbePly(w)
        \/ PushFound(w)
        \/ InsertPublish(w)
        \/ InsertUpdate(w)

Spec == Init /\ [][Next]_vars

\* Batch::forward with a predictor that fails: server.predict returns fewer
\* responses than there are events (none at all, or the first k), and
\* events.zip(responses) will pair only the events that have one
ForwardPredictShort(w) ==
    /\ wk[w].pc = "forward"
    /\ \E k \in 0..(Len(wk[w].batch) - 1) :
          wk' = [wk EXCEPT ![w].pc = "fetch_sub", ![w].batch = SubSeq(@, 1, k),
                           ![w].responses =
                               SubSeq(predict(wk[w].features, Len(wk[w].batch)), 1, k)]
    /\ UNCHANGED <<tree, event_queue, list, num_batches, epoch, next_id,
                   popped_inserts, Others>>

NextFail ==
    \E w \in Workers :
        \/ WhileDone(w)
        \/ WhilePop(w)
        \/ Push(w)
        \/ GetBatchLoad(w)
        \/ GetBatchLocked(w)
        \/ ForwardPredict(w)
        \/ ForwardPredictShort(w)
        \/ ForwardFetchSub(w)
        \/ Requeue(w)
        \/ ProbePly(w)
        \/ PushFound(w)
        \/ InsertPublish(w)
        \/ InsertUpdate(w)

\* the search with a predictor that may fail
SpecFail == Init /\ [][NextFail]_vars

\* a search that starts from a tree whose root has disqualified edges
\* (Node::disqualify, called on the root before the workers start)
InitDisqualified ==
    /\ \E disqualified \in {{0}, {Pass}, Moves} :
          tree = (<<>> :> [NewNode(Moves) EXCEPT !.disqualified = disqualified])
    /\ event_queue = <<>>
    /\ list = [features |-> <<>>, events |-> <<>>]
    /\ num_batches = 0
    /\ max_batches \in 1..Cardinality(Workers)
    /\ max_batch_size \in 1..MaxEvents
    /\ epoch = 0
    /\ wk = [w \in Workers |-> Idle]
    /\ next_id = 1
    /\ popped_inserts = 0
    /\ OutsideSearch

SpecDisqualified == InitDisqualified /\ [][Next]_vars

(* ---------------------------- termination ------------------------------ *)
\* The search with a time strategy whose try_extend answers Expired on every
\* call and a predictor that answers every request, in a game with at most
\* MaxEvents positions below the root, under fair scheduling.

Expired == [tag |-> "Expired", remaining |-> 0]

\* the empty slots selection can still reach
OpenSlots(t) ==
    {<<path, m>> \in (DOMAIN t) \X Moves :
        m \in Candidates(t[path]) /\ t[path].children[m].ptr = "null"}

WhileDoneExpired(w) == WhileDone(w) /\ is_done(tree[<<>>], Expired)

WhilePopExpired(w) == WhilePop(w) /\ ~is_done(tree[<<>>], Expired)

\* the Insert arm, where the positions of the game that are left (the empty
\* slots) and the ones evaluated so far are MaxEvents at most: the leaves
\* beyond are terminal positions
InsertPublishFinite(w) ==
    /\ InsertPublish(w)
    /\ (next_id - 1) + Cardinality(OpenSlots(tree')) <= MaxEvents

\* a step of worker w
StepLive(w) ==
    \/ WhileDoneExpired(w)
    \/ WhilePopExpired(w)
    \/ Push(w)
    \/ GetBatchLoad(w)
    \/ GetBatchLocked(w)
    \/ ForwardPredict(w)
    \/ ForwardFetchSub(w)
    \/ Requeue(w)
    \/ ProbePly(w)
    \/ PushFound(w)
    \/ InsertPublishFinite(w)
    \/ InsertUpdate(w)

NextLive == \E w \in Workers : StepLive(w)

\* the compare-exchange of get_batch succeeds
Harvest(w) == GetBatchLocked(w) /\ wk'[w].pc = "forward"

\* every thread keeps running, and compare_exchange_weak does not fail
\* spuriously for ever
Fairness == \A w \in Workers : WF_vars(StepLive(w)) /\ SF_vars(Harvest(w))

(* ---------------------------- lock scopes ------------------------------ *)
\* predict_worker with the scope of every lock guard as steps of their own.
\* The tree is left out: is_done, tree::probe and tree::insert are one step
\* each inside their read guard, and every result they can have is allowed.

\* self.list.lock() succeeds for one thread at a time
ListFree == \A v \in Workers : "list" \notin wk[v].guards

\* global_rwlock::read(|| time_control::is_done(..)) is entered
ReadIsDone(w) ==
    /\ wk[w].pc = "while"
    /\ wk' = [wk EXCEPT ![w].pc = "is_done", ![w].guards = {"read"}]
    /\ UNCHANGED <<tree, event_queue, list, num_batches, epoch, next_id,
                   popped_inserts, Others>>

\* the closure returns and the read guard is dropped; then the worker
\* returns, or pops the event queue and matches on the event
IsDoneReturns(w) ==
    /\ wk[w].pc = "is_done"
    /\ \/ /\ wk' = [wk EXCEPT ![w] = Exit]
          /\ UNCHANGED <<event_queue, popped_inserts>>
       \/ /\ event_queue = <<>>
          /\ wk' = [wk EXCEPT ![w] = [Idle EXCEPT !.pc = "get_batch"]]
          /\ UNCHANGED <<event_queue, popped_inserts>>
       \/ /\ event_queue # <<>>
          /\ LET r == IntoPending(Head(event_queue))
             IN  /\ event_queue' = Tail(event_queue)
                 /\ wk' = [wk EXCEPT ![w] =
                               [Idle EXCEPT !.event = r[2],
                                            !.pc = CASE r[1] = "Predict" -> "push"
                                                     [] r[1] = "Insert" -> "insert"
                                                     [] OTHER -> "unreachable"]]
                 /\ popped_inserts' =
                        IF r[1] = "Insert" THEN popped_inserts + 1 ELSE popped_inserts
    /\ UNCHANGED <<tree, list, num_batches, epoch, next_id, Others>>

\* Batcher::push: let mut list = self.list.lock()
PushLock(w) ==
    /\ wk[w].pc = "push"
    /\ ListFree
    /\ wk' = [wk EXCEPT ![w].pc = "push_locked", ![w].guards = {"list"}]
    /\ UNCHANGED <<tree, event_queue, list, num_batches, epoch, next_id,
                   popped_inserts, Others>>

\* Batcher::push: the event is appended and the guard dropped on return
PushLocked(w) ==
    /\ wk[w].pc = "push_locked"
    /\ list' = BatcherPush(list, wk[w].event, FeaturesOf(wk[w].event))
    /\ wk' = [wk EXCEPT ![w] = [Idle EXCEPT !.pc = "get_batch", !.site = "predict"]]
    /\ UNCHANGED <<tree, event_queue, num_batches, epoch, next_id,
                   popped_inserts, Others>>

\* get_batch: let mut list = self.list.lock()
GetBatchLock(w) ==
    /\ wk[w].pc = "get_batch_locked"
    /\ ListFree
    /\ wk' = [wk EXCEPT ![w].pc = "get_batch_split", ![w].guards = {"list"}]
    /\ UNCHANGED <<tree, event_queue, list, num_batches, epoch, next_id,
                   popped_inserts, Others>>

\* a bug: the list guard is still alive when the batch is forwarded
GetBatchSplitHeld(w) ==
    /\ wk[w].pc = "get_batch_split"
    /\ GetBatchUnderLock(w, wk[w].guards)

\* get_batch: the critical section; the guard is dropped at the end of its
\* block, before get_batch returns
GetBatchSplit(w) ==
    /\ wk[w].pc = "get_batch_split"
    /\ GetBatchUnderLock(w, {})

\* global_rwlock::read(|| tree::probe(root, &mut board)) is entered
ProbeRead(w) ==
    /\ wk[w].pc = "probe"
    /\ wk' = [wk EXCEPT ![w].pc = "probe_locked", ![w].guards = {"read"}]
    /\ UNCHANGED <<tree, event_queue, list, num_batches, epoch, next_id,
                   popped_inserts, Others>>

\* probe returns and the read guard is dropped: Found, Conflict or NoResult
ProbeReturns(w) ==
    /\ wk[w].pc = "probe_locked"
    /\ \/ /\ next_id <= MaxEvents
          /\ wk' = [wk EXCEPT ![w] = [Idle EXCEPT !.pc = "found",
                                                   !.event = EventPredict(next_id, <<>>)]]
          /\ next_id' = next_id + 1
       \/ /\ wk' = [wk EXCEPT ![w] = Idle]
          /\ UNCHANGED next_id
       \/ /\ wk' = [wk EXCEPT ![w] = Exit]
          /\ UNCHANGED next_id
    /\ UNCHANGED <<tree, event_queue, list, num_batches, epoch, popped_inserts, Others>>

\* global_rwlock::read(|| tree::insert(..)) is entered
InsertRead(w) ==
    /\ wk[w].pc = "insert"
    /\ wk' = [wk EXCEPT ![w].pc = "insert_locked", ![w].guards = {"read"}]
    /\ UNCHANGED <<tree, event_queue, list, num_batches, epoch, next_id,
                   popped_inserts, Others>>

\* insert returns, the read guard is dropped and the epoch released
InsertReturns(w) ==
    /\ wk[w].pc = "insert_locked"
    /\ wk' = [wk EXCEPT ![w] = Idle]
    /\ epoch' = epoch + 1
    /\ UNCHANGED <<tree, event_queue, list, num_batches, next_id, popped_inserts, Others>>

NextLocks ==
    \E w \in Workers :
        \/ ReadIsDone(w)
        \/ IsDoneReturns(w)
        \/ PushLock(w)
        \/ PushLocked(w)
        \/ GetBatchLoad(w)
        \/ GetBatchLock(w)
        \/ GetBatchSplit(w)
        \/ ForwardPredict(w)
        \/ ForwardFetchSub(w)
        \/ Requeue(w)
        \/ ProbeRead(w)
        \/ ProbeReturns(w)
        \/ PushFound(w)
        \/ InsertRead(w)
        \/ InsertReturns(w)

SpecLocks == Init /\ [][NextLocks]_vars

\* a worker that predict_aux never starts: it runs nothing and owns nothing
NotStarted == [Idle EXCEPT !.pc = "done", !.context = FALSE]

\* predict_aux with num_workers = 1 .. Cardinality(Workers)
InitWorkers ==
    /\ \E prior \in Policies : tree = (<<>> :> NewNode(prior))
    /\ event_queue = <<>>
    /\ list = [features |-> <<>>, events |-> <<>>]
    /\ num_batches = 0
    /\ max_batches \in 1..Cardinality(Workers)
    /\ max_batch_size \in 1..MaxEvents
    /\ epoch = 0
    /\ \E num_workers \in 1..Cardinality(Workers) :
          wk = [w \in Workers |-> IF w <= num_workers THEN Idle ELSE NotStarted]
    /\ next_id = 1
    /\ popped_inserts = 0
    /\ OutsideSearch

SpecWorkers == InitWorkers /\ [][Next]_vars

\* the search of SpecWorkers in a game of MaxEvents positions at most, with
\* the time up and fair scheduling
InitLive == InitWorkers /\ Cardinality(OpenSlots(tree)) <= MaxEvents

SpecLive == InitLive /\ [][NextLive]_vars /\ Fairness

(* ---------------------------- auxiliary definitions -------------------- *)

AllDone == \A w \in Workers : wk[w].pc = "done"

Root == tree[<<>>]

Min(a, b) == IF a <= b THEN a ELSE b

\* f[0] + ... + f[n]
RECURSIVE SumTo(_, _)
SumTo(f, n) == IF n < 0 THEN 0 ELSE f[n] + SumTo(f, n - 1)

\* the event a worker holds outside a batch: <<>> or <<event>>
Held(w) == IF wk[w].event = NoEvent THEN <<>> ELSE <<wk[w].event>>

RECURSIVE Gather(_, _)
Gather(f, S) ==
    IF S = {} THEN <<>>
    ELSE LET x == CHOOSE y \in S : \A z \in S : y <= z IN f[x] \o Gather(f, S \ {x})

\* every event that exists, wherever it is
AllEvents ==
    event_queue \o list.events
        \o Gather([w \in Workers |-> Held(w) \o wk[w].batch], Workers)

\* the events whose leaf has not been published yet
Unpublished ==
    event_queue \o list.events
        \o Gather([w \in Workers |->
                     (IF wk[w].pc = "insert_update" THEN <<>> ELSE Held(w))
                         \o wk[w].batch], Workers)

\* the trace passes through edge m of the node at path
Covers(trace, path, m) ==
    /\ Len(trace) > Len(path)
    /\ Prefix(trace, Len(path)) = path
    /\ trace[Len(path) + 1] = m

\* the descents that hold a virtual loss on edge m of the node at path, given
\* the events whose leaf is not published yet
VirtualHeld(unpublished, path, m) ==
    Cardinality({i \in DOMAIN unpublished : Covers(unpublished[i].trace, path, m)})
    + Cardinality({w \in Workers : wk[w].pc = "probe" /\ Covers(wk[w].trace, path, m)})
    + Cardinality({w \in Workers : /\ wk[w].pc = "insert_update"
                                   /\ Covers(wk[w].event.trace, path, m)
                                   /\ wk[w].ply >= Len(path) + 1})

\* the inserts through edge m of the node at path that have updated everything
\* below that edge and update it next
UpdatesDue(path, m) ==
    Cardinality({w \in Workers : /\ wk[w].pc = "insert_update"
                                 /\ Covers(wk[w].event.trace, path, m)
                                 /\ wk[w].ply = Len(path) + 1})

(* ---------------------------- claims ----------------------------------- *)

\* C1: under every interleaving of push, push_and_get_batch, get_batch and
\* Batch::forward by the workers, num_batches never exceeds max_batches (and
\* never drops below zero).
C1_NumBatchesBounded == num_batches >= 0 /\ num_batches <= max_batches

\* reached: every slot is taken while another worker, which loaded a smaller
\* value of num_batches, sits before its compare-exchange with events pending
C1_Witness ==
    /\ num_batches = max_batches
    /\ \E w \in Workers : /\ wk[w].pc = "get_batch_locked"
                          /\ wk[w].current < max_batches
                          /\ Len(list.events) >= MinBatchSize(w)

\* C2: in every state every node has total_count equal to the sum of its
\* edges' visit counts and vtotal_count >= total_count; more precisely
\* vtotal_count = total_count + the sum of its edges' virtual-loss counts, none
\* of which is negative.
C2_NodeCounts ==
    \A path \in DOMAIN tree :
        LET node == tree[path]
        IN  /\ node.total_count = SumTo([m \in Moves |-> node.children[m].count], Pass)
            /\ node.vtotal_count >= node.total_count
            /\ node.vtotal_count
                 = node.total_count
                     + SumTo([m \in Moves |-> node.children[m].vcount], Pass)
            /\ \A m \in Moves : node.children[m].vcount >= 0

\* reached: the root has a real visit and, at the same time, a virtual loss of
\* a descent of another worker that is still under way
C2_Witness ==
    /\ Root.total_count >= 1
    /\ Root.vtotal_count > Root.total_count
    /\ \E w \in Workers : wk[w].pc = "insert_update"

\* C3: when all workers have stopped, the root's total_count equals the number
\* of Insert events the workers took from the event queue.
C3_RootCountsInserts == AllDone => Root.total_count = popped_inserts

\* reached: all workers have stopped after two inserts
C3_Witness == AllDone /\ popped_inserts = 2 /\ Root.total_count = 2

\* C4: an edge is reserved by exactly one descent: a slot that is being
\* expanded belongs to exactly one event whose leaf is not published yet, and
\* a slot that is empty or already holds a node belongs to none, so that no
\* leaf slot is inserted twice.
C4_OneReservation ==
    LET unpublished == Unpublished
    IN  /\ \A path \in DOMAIN tree : \A m \in Moves :
              LET slot == Append(path, m)
                  owners == Cardinality({i \in DOMAIN unpublished :
                                            unpublished[i].trace = slot})
                  ptr == tree[path].children[m].ptr
              IN  /\ ptr = "expanding" => owners = 1
                  /\ ptr # "expanding" => owners = 0
                  /\ ptr = "node" <=> slot \in DOMAIN tree
        /\ \A i \in DOMAIN unpublished :
              /\ unpublished[i].trace # <<>>
              /\ Prefix(unpublished[i].trace, Len(unpublished[i].trace) - 1)
                    \in DOMAIN tree

\* reached: one descent has reserved an edge of the root and the descent of
\* another worker is about to select at the root
C4_Witness ==
    /\ \E m \in Moves : Root.children[m].ptr = "expanding"
    /\ \E w \in Workers : wk[w].pc = "probe" /\ wk[w].trace = <<>>
    /\ \E w \in Workers : wk[w].pc = "found"

\* C5: the virtual-loss count of every edge is the number of descents through
\* it that are still under way (probing, waiting for their evaluation, or not
\* yet back at this edge during insert), and its visit count is the number of
\* inserts through it that have come back to it; so when no descent is under
\* way every virtual-loss count is 0.
C5_VirtualLossBalanced ==
    LET unpublished == Unpublished
    IN  \A path \in DOMAIN tree : \A m \in Moves :
            LET edge == tree[path].children[m]
                slot == Append(path, m)
            IN  /\ edge.vcount = VirtualHeld(unpublished, path, m)
                /\ edge.count = (IF slot \in DOMAIN tree
                                 THEN 1 + tree[slot].total_count ELSE 0)
                                   - UpdatesDue(path, m)

\* reached: a trace of two plies has been inserted and nothing is under way
C5_Witness ==
    /\ \E path \in DOMAIN tree : Len(path) = 2
    /\ AllEvents = <<>>
    /\ \A w \in Workers : wk[w].pc \in {"while", "done"}
    /\ \A path \in DOMAIN tree : \A m \in Moves : tree[path].children[m].vcount = 0

\* the stage of the event with the given id: 0 not created, 1 Predict,
\* 2 Pending (on its way through the batcher), 3 Insert, 4 taken from the queue
\* for its insert, 5 consumed; -1 when its kind does not fit the place it is in
Stage(id) ==
    LET inQueue == {i \in DOMAIN event_queue : event_queue[i].id = id}
        holders == {w \in Workers : wk[w].event.id = id}
        batched == (\E i \in DOMAIN list.events : list.events[i].id = id)
                   \/ (\E w \in Workers : \E i \in DOMAIN wk[w].batch :
                          wk[w].batch[i].id = id)
    IN  IF inQueue # {}
        THEN LET kind == event_queue[CHOOSE i \in inQueue : TRUE].kind
             IN  CASE kind = "Predict" -> 1 [] kind = "Insert" -> 3 [] OTHER -> -1
        ELSE IF holders # {}
        THEN LET w == CHOOSE x \in holders : TRUE
             IN  CASE wk[w].pc = "found" /\ wk[w].event.kind = "Predict" -> 1
                   [] wk[w].pc = "push" /\ wk[w].event.kind = "Pending" -> 2
                   [] wk[w].pc \in {"insert", "insert_update"}
                        /\ wk[w].event.kind = "Pending" -> 4
                   [] OTHER -> -1
        ELSE IF batched THEN 2
        ELSE IF id < next_id THEN 5 ELSE 0

\* every event is in one place only, and what the batcher holds is Pending
EventsWellPlaced ==
    LET all == AllEvents
    IN  /\ \A i, j \in DOMAIN all : all[i].id = all[j].id => i = j
        /\ \A i \in DOMAIN all : all[i].id \in 1..(next_id - 1)
        /\ \A i \in DOMAIN list.events : list.events[i].kind = "Pending"
        /\ \A w \in Workers : \A i \in DOMAIN wk[w].batch :
              wk[w].batch[i].kind = "Pending"
        /\ \A id \in 1..MaxEvents : Stage(id) # -1

\* one step moves an event at most one stage forward, and to Insert only out
\* of a batch that has been forwarded
StageStep ==
    \A id \in 1..MaxEvents :
        /\ Stage(id)' \in {Stage(id), Stage(id) + 1}
        /\ (Stage(id) = 2 /\ Stage(id)' = 3) =>
              \E w \in Workers : /\ wk[w].pc = "requeue"
                                 /\ wk[w].batch # <<>>
                                 /\ Head(wk[w].batch).id = id

\* C6: an event changes kind only in the order Predict -> Pending -> Insert ->
\* consumed: it is in the batcher only as Pending, after it was popped as
\* Predict, it becomes Insert only out of a forwarded batch, and it is taken
\* for its insert once.
C6_EventOrder == []EventsWellPlaced /\ [][StageStep]_vars

\* reached: an event has gone through every stage while another one is still
\* waiting in the batcher
C6_Witness == Stage(1) = 5 /\ Stage(2) = 2

\* a call of get_batch by worker w ends in this step
GetBatchReturns(w) == wk[w].pc = "get_batch_locked" /\ wk'[w].pc # "get_batch_locked"

\* C7 as stated: a call that inspects the pending list returns a batch exactly
\* when num_batches < max_batches and the list holds at least min_size events.
C7_AsStated ==
    [][\A w \in Workers :
          GetBatchReturns(w) =>
              (wk'[w].pc = "forward"
                 <=> (num_batches < max_batches
                        /\ Len(list.events) >= MinBatchSize(w)))]_vars

\* C7, amended: a call that inspects the pending list returns a batch only if
\* the list holds at least min_size events and num_batches still has the value
\* loaded on entry (which was below max_batches), and then num_batches is that
\* value plus one; with num_batches changed since the load it returns nothing
\* whatever the list holds, and a call that returns nothing leaves the list
\* and num_batches as they were.
C7_GetBatchReturns ==
    [][\A w \in Workers :
          GetBatchReturns(w) =>
              /\ wk'[w].pc = "forward" =>
                    /\ Len(list.events) >= MinBatchSize(w)
                    /\ num_batches = wk[w].current
                    /\ wk[w].current < max_batches
                    /\ num_batches' = wk[w].current + 1
              /\ wk'[w].pc # "forward" => UNCHANGED <<list, num_batches>>]_vars

\* reached: a worker sits before its compare-exchange with enough events
\* pending and a free slot, but num_batches has changed since it loaded it
C7_Witness ==
    \E w \in Workers :
        /\ wk[w].pc = "get_batch_locked"
        /\ Len(list.events) >= MinBatchSize(w)
        /\ num_batches < max_batches
        /\ num_batches # wk[w].current

\* C8: a successful get_batch with n pending events takes the last
\* min(n, max_batch_size) of them, in push order, with their features, and
\* leaves the first n - min(n, max_batch_size) in their order.
C8_TailSplit ==
    [][\A w \in Workers :
          (wk[w].pc = "get_batch_locked" /\ wk'[w].pc = "forward") =>
              LET n == Len(list.events)
                  k == Min(n, max_batch_size)
              IN  /\ wk'[w].batch = SubSeq(list.events, n - k + 1, n)
                  /\ list'.events = SubSeq(list.events, 1, n - k)
                  /\ list'.features = SubSeq(list.features, 1, (n - k) * FEATURE_SIZE)
                  /\ Len(list.features) = n * FEATURE_SIZE]_vars

\* reached: a worker holds a full batch of the newest events while an older
\* event was left behind in the pending list
C8_Witness ==
    \E w \in Workers :
        /\ wk[w].pc = "forward"
        /\ Len(wk[w].batch) = max_batch_size
        /\ list.events # <<>>
        /\ \A i \in DOMAIN list.events : \A j \in DOMAIN wk[w].batch :
              list.events[i].id < wk[w].batch[j].id

\* the workers inside predictor.predict
InPredict == {w \in Workers : wk[w].pc = "forward"}

\* the workers whose predict call has returned and who have not released
\* their slot yet
Returned == {w \in Workers : wk[w].pc = "fetch_sub"}

\* C9: num_batches counts exactly the harvested batches whose forward has not
\* yet reached its fetch_sub: a slot stays taken while its batch is inside
\* predict, is released once, after predict has returned, and every harvested
\* batch is on its way through forward.
C9_SlotPerBatch ==
    /\ num_batches = Cardinality(InPredict) + Cardinality(Returned)
    /\ \A w \in Workers :
          wk[w].batch # <<>> => wk[w].pc \in {"forward", "fetch_sub", "requeue"}
    /\ \A w \in Workers : wk[w].pc \in {"forward", "fetch_sub"} => wk[w].batch # <<>>

\* reached: a batch has been forwarded and its slot released, the responses
\* are still to be queued
C9_Witness ==
    \E w \in Workers : wk[w].pc = "requeue" /\ wk[w].batch # <<>> /\ num_batches = 0

\* C10: the number of workers inside predictor.predict never exceeds
\* max_batches.
C10_PredictBounded == Cardinality(InPredict) <= max_batches

\* reached: with one slot, one worker is inside predict while the other one
\* asks for a batch with events pending
C10_Witness ==
    /\ max_batches = 1
    /\ \E w \in Workers : wk[w].pc = "forward"
    /\ \E w \in Workers : wk[w].pc = "get_batch" /\ Len(list.events) >= MinBatchSize(w)

\* C11: push_and_get_batch appends the event to the pending list; a batch it
\* returns holds exactly max_batch_size events; and when its get_batch finds
\* fewer than max_batch_size events pending it returns nothing and leaves the
\* list, with the pushed event, as it is.
C11_FullBatchOnly ==
    [][\A w \in Workers :
          /\ wk[w].pc = "push" /\ wk'[w].pc # "push" =>
                /\ list'.events = Append(list.events, [wk[w].event EXCEPT !.kind = "Pending"])
                /\ wk[w].event.kind = "Pending"
          /\ wk[w].site = "predict" /\ wk'[w].pc = "forward" =>
                Len(wk'[w].batch) = max_batch_size
          /\ (wk[w].site = "predict" /\ wk[w].pc = "get_batch_locked"
                /\ wk'[w].pc # "get_batch_locked"
                /\ Len(list.events) < max_batch_size) =>
                /\ wk'[w].pc = "while"
                /\ wk'[w].batch = <<>>
                /\ list' = list]_vars

\* reached: a worker has pushed an event and is about to look for a batch
\* with fewer than max_batch_size events pending
C11_Witness ==
    \E w \in Workers :
        /\ wk[w].pc = "get_batch_locked"
        /\ wk[w].site = "predict"
        /\ list.events # <<>>
        /\ Len(list.events) < max_batch_size

\* the results with which the time strategy says that the time is up
TimeIsUp == {res \in TimeStrategyResults : res.tag \in {"Expired", "NotExtended"}}

\* C12 as stated: is_done is true on Expired and NotExtended for every root.
C12_AsStated == \A res \in TimeIsUp : is_done(Root, res)

\* C12, amended: on Expired and NotExtended is_done is true for every root
\* with at least one visit; for a root with total_count = 0 it is false.
C12_TimeIsUp == \A res \in TimeIsUp : is_done(Root, res) <=> Root.total_count > 0

\* reached: the root has been visited and a worker has left its loop
C12_Witness == Root.total_count > 0 /\ \E w \in Workers : wk[w].pc = "done"

\* C13: on a root with at least one visit, is_done is true on
\* NotExpired(remaining) exactly when min_promote_rollouts(root) > remaining,
\* and false on Extended.
C13_EarlyStop ==
    Root.total_count >= 1 =>
        \A res \in TimeStrategyResults :
            /\ res.tag = "NotExpired" =>
                  (is_done(Root, res) <=> min_promote_rollouts(Root) > res.remaining)
            /\ res.tag = "Extended" => ~is_done(Root, res)

\* reached: both edges of the root have one visit, the lead of the most
\* visited one is 0 and equals the remaining rollouts of NotExpired(0)
C13_Witness ==
    /\ Root.total_count = 2
    /\ min_promote_rollouts(Root) = 0
    /\ \E w \in Workers : wk[w].pc = "while"

\* Arc::strong_count(&context.root): the context of predict_aux and the clone
\* of every worker that has not returned
strong_count == 1 + Cardinality({w \in Workers : wk[w].context})

\* C18: when every worker has returned, however it left its loop, exactly one
\* strong reference to the root is left; before that there is one more for
\* every worker still running.
C18_OneReference ==
    /\ AllDone => strong_count = 1
    /\ strong_count = 1 + Cardinality({w \in Workers : wk[w].pc # "done"})

\* reached: one worker has returned because the search is done and the other
\* one because its probe had no result, with events left behind
C18_Witness ==
    /\ AllDone
    /\ Root.total_count >= 1
    /\ \E path \in DOMAIN tree : Candidates(tree[path]) = {}
    /\ AllEvents # <<>>

\* C15 as stated: a worker whose batch came back from the predictor without
\* any response returns from its loop: its next step, at the end of the loop
\* over the (event, response) pairs, is the return from predict_worker.
C15_AsStated ==
    [][\A w \in Workers :
          (wk[w].pc = "requeue" /\ wk[w].batch = <<>> /\ wk'[w] # wk[w]) =>
              wk'[w].pc = "done"]_vars

\* the Predict events in the event queue
QueuedPredicts == SelectSeq(event_queue, LAMBDA e : e.kind = "Predict")

\* C16: a probe that ends with NoResult (no edge to select) makes the worker
\* return at once, with nothing pushed; one that ends with Conflict takes the
\* worker back to the head of its loop, where is_done is checked before the
\* next probe, with nothing pushed; one that ends with Found is followed by
\* the push of exactly one Predict event, and no other step adds a Predict
\* event to the queue.
C16_ProbeOutcomes ==
    [][\A w \in Workers :
          /\ (wk[w].pc = "probe" /\ wk'[w] # wk[w]
                /\ Candidates(tree[wk[w].trace]) = {}) => wk'[w].pc = "done"
          /\ (wk[w].pc = "probe" /\ wk'[w].pc \in {"done", "while", "found"}) =>
                /\ event_queue' = event_queue
                /\ wk'[w].pc # "found" => next_id' = next_id /\ wk'[w].event = NoEvent
                /\ wk'[w].pc = "found" => wk'[w].event.kind = "Predict"
          /\ (wk[w].pc = "found" /\ wk'[w] # wk[w]) =>
                /\ event_queue' = Append(event_queue, wk[w].event)
                /\ wk'[w] = Idle
          /\ (wk[w].pc # "probe" /\ wk'[w].pc = "probe") =>
                /\ wk[w].pc \in {"get_batch", "get_batch_locked"}
                /\ wk[w].site = "none"
          /\ (wk[w].pc # "get_batch" /\ wk'[w].pc = "get_batch"
                /\ wk'[w].site = "none") =>
                /\ wk[w].pc = "while"
                /\ \E res \in TimeStrategyResults : ~is_done(Root, res)
          /\ Len(QueuedPredicts') > Len(QueuedPredicts) =>
                \E v \in Workers : wk[v].pc = "found" /\ wk'[v].pc = "while"]_vars

\* reached: one worker is about to push the event of its Found probe while
\* the probe of the other one stands at a node with no edge to select
C16_Witness ==
    /\ \E w \in Workers : wk[w].pc = "found"
    /\ \E w \in Workers : /\ wk[w].pc = "probe"
                          /\ wk[w].trace # <<>>
                          /\ Candidates(tree[wk[w].trace]) = {}

\* every trace there is: of the events and of the probes under way
AllTraces ==
    {AllEvents[i].trace : i \in DOMAIN AllEvents} \cup {wk[w].trace : w \in Workers}

\* C17: only edges with a finite prior that are not disqualified are ever
\* selected: no other edge is part of a trace, has a virtual loss or a visit,
\* or is reserved or expanded.
C17_OnlyCandidates ==
    /\ \A path \in DOMAIN tree : \A m \in Moves :
          LET edge == tree[path].children[m]
          IN  (edge.vcount > 0 \/ edge.count > 0 \/ edge.ptr # "null") =>
                  m \in tree[path].prior /\ m \notin tree[path].disqualified
    /\ \A trace \in AllTraces : \A i \in 1..Len(trace) :
          /\ Prefix(trace, i - 1) \in DOMAIN tree
          /\ trace[i] \in tree[Prefix(trace, i - 1)].prior
          /\ trace[i] \notin tree[Prefix(trace, i - 1)].disqualified

\* reached: below a root with a disqualified edge, a leaf whose policy allows
\* the pass move only has been expanded in turn
C17_Witness ==
    /\ Root.disqualified # {}
    /\ \E path \in DOMAIN tree :
          /\ Len(path) = 1
          /\ tree[path].prior = {Pass}
          /\ tree[path].children[Pass].count = 1

\* the workers inside the Insert arm, before its epoch.fetch_add
Inserting == {w \in Workers : wk[w].pc \in {"insert", "insert_update"}}

\* C20: the epoch never decreases; it grows by one per step, and only in the
\* step that ends a tree insert; it always equals the number of inserts that
\* have been completed, so it equals the number of inserts once all workers
\* have returned.
C20_EpochCountsInserts ==
    /\ [](epoch = popped_inserts - Cardinality(Inserting))
    /\ [](AllDone => epoch = popped_inserts)
    /\ [][/\ epoch' \in {epoch, epoch + 1}
          /\ epoch' # epoch =>
                \E w \in Workers : /\ wk[w].pc = "insert_update"
                                   /\ wk[w].ply = 1
                                   /\ wk'[w].pc = "while"
                                   /\ tree' # tree]_vars

\* reached: one insert has been completed and another one is under way
C20_Witness == epoch = 1 /\ \E w \in Workers : wk[w].pc = "insert_update"

\* C19: a worker inside predictor.predict holds no lock guard: the read guard
\* of the global lock is held only around is_done, probe and insert, the
\* list mutex only inside push and inside the critical section of get_batch,
\* by one worker at a time, and never both by one worker.
C19_NoLockInPredict ==
    /\ \A w \in Workers :
          /\ wk[w].pc \in {"forward", "fetch_sub", "requeue"} => wk[w].guards = {}
          /\ "read" \in wk[w].guards <=>
                wk[w].pc \in {"is_done", "probe_locked", "insert_locked"}
          /\ "list" \in wk[w].guards <=> wk[w].pc \in {"push_locked", "get_batch_split"}
    /\ Cardinality({w \in Workers : "list" \in wk[w].guards}) <= 1

\* reached: one worker is inside predict while another one holds the list
\* mutex in get_batch
C19_Witness ==
    /\ \E w \in Workers : wk[w].pc = "forward"
    /\ \E w \in Workers : wk[w].pc = "get_batch_split" /\ list.events # <<>>

\* C14: with a predictor that answers every request and a time strategy that
\* reports Expired on every call, under fair scheduling every worker leaves
\* its loop, with one worker and with two.
C14_WorkersReturn == <>AllDone

\* reached: both workers have returned after the root got its first visit,
\* with an event still waiting for its evaluation and an edge of the root
\* reserved for it
C14_Witness ==
    /\ AllDone
    /\ \A w \in Workers : ~wk[w].context
    /\ Root.total_count = 1
    /\ \E m \in Moves : Root.children[m].ptr = "expanding"

(* ---------------------------- predict_aux ------------------------------ *)
\* The caller of the search: the evaluation of the root, the choice of the
\* root, the start of the workers, and the answer taken from the tree when
\* they have returned. Values are counted in sixteenths: 0.5 is 8. The time
\* strategy of the search reports Expired on every call.

Colors == {"Black", "White"}

\* f32::NEG_INFINITY, and a finite number
NegInf == [finite |-> FALSE]

Finite(x) == [finite |-> TRUE, x |-> x]

\* the mean value of an edge with visits: a finite number that is not followed
MeanValue == [finite |-> TRUE, mean |-> TRUE]

\* symmetry::ALL
ALL == 1..8

\* 0.5 + 0.5 * value, for a value of the network in -1 .. 1
Sixteenths(value) == 8 + 8 * value

\* the answer of the test's NanPredictor to every request
NanResponse == [value |-> 0, policy |-> {}]

\* the predictors that are tried, by their answer to the request for each
\* symmetry of the root: -inf everywhere, every move, the pass move alone with
\* a won position, and answers that differ between the symmetries
Predictors ==
    { [max_num_threads |-> 1, answer |-> [t \in ALL |-> NanResponse]],
      [max_num_threads |-> 2, answer |-> [t \in ALL |-> [value |-> 0, policy |-> Moves]]],
      [max_num_threads |-> 1, answer |-> [t \in ALL |-> [value |-> 1, policy |-> {Pass}]]],
      [max_num_threads |-> 2,
       answer |-> [t \in ALL |-> IF t % 2 = 1 THEN [value |-> -1, policy |-> Moves]
                                               ELSE [value |-> 1, policy |-> {Pass}]]] }

\* the starting points that are tried, by the moves the policy checker
\* accepts and the number of moves played: the empty board and a board with
\* no point left
StartingPoints == {[legal |-> Moves, count |-> 0], [legal |-> {Pass}, count |-> 8]}

\* f[1] + ... + f[n]
RECURSIVE SumFrom1(_, _)
SumFrom1(f, n) == IF n = 0 THEN 0 ELSE f[n] + SumFrom1(f, n - 1)

\* a bug: the responses are not merged into the initial policy
full_forwardUnmerged(server, starting_point) ==
    [value |-> SumFrom1([t \in ALL |-> Sixteenths(server.answer[t].value)], 8) \div 8,
     policy |-> starting_point.legal]

\* full_forward: every symmetry is evaluated, each response is merged into a
\* copy of the initial policy (an entry stays finite when both are finite: the
\* noise normalize_policy adds to a policy without mass leaves -inf as it is),
\* the merged policies are summed and the values averaged
full_forward(server, starting_point) ==
    LET other == [t \in ALL |->
                    [value |-> Sixteenths(server.answer[t].value),
                     policy |-> starting_point.legal \cap server.answer[t].policy]]
    IN  [value |-> SumFrom1([t \in ALL |-> other[t].value], 8) \div 8,
         policy |-> {m \in starting_point.legal : \A t \in ALL : m \in other[t].policy}]

\* the trees of an earlier search that are handed in as starting_tree, for
\* to_move: a root that is a pre-expanded pass move, a root with one visited
\* child, and a root with every edge disqualified
StartingTreesOf(to_move) ==
    { [some |-> TRUE, to_move |-> to_move, initial_value |-> 16,
       tree |-> (<<>> :> NewNode({Pass}))],
      [some |-> TRUE, to_move |-> to_move, initial_value |-> 0,
       tree |-> (<<>> :> [NewNode(Moves) EXCEPT
                            !.total_count = 1,
                            !.children[0] = [count |-> 1, vcount |-> 0, ptr |-> "node"]])
                    @@ (<<0>> :> NewNode({Pass}))],
      [some |-> TRUE, to_move |-> to_move, initial_value |-> 0,
       tree |-> (<<>> :> [NewNode(Moves) EXCEPT !.disqualified = Moves])] }

StartingTrees == {None} \cup UNION {StartingTreesOf(c) : c \in Colors}

\* predict_aux is called; no root and no context exist yet
InitPredict ==
    /\ tree = <<>>
    /\ event_queue = <<>>
    /\ list = [features |-> <<>>, events |-> <<>>]
    /\ num_batches = 0
    /\ max_batch_size \in 1..MaxEvents
    /\ epoch = 0
    /\ wk = [w \in Workers |-> NotStarted]
    /\ next_id = 1
    /\ popped_inserts = 0
    /\ \E server \in Predictors, starting_point \in StartingPoints,
          starting_color \in Colors, deterministic \in BOOLEAN,
          num_workers \in 0..Cardinality(Workers) :
          /\ main = [pc |-> "full_forward", server |-> server,
                     starting_point |-> starting_point,
                     starting_color |-> starting_color,
                     deterministic |-> deterministic, num_workers |-> num_workers,
                     starting_value |-> 0, starting_policy |-> {}, initial_value |-> 0]
          /\ max_batches = server.max_num_threads
    /\ starting_tree \in StartingTrees
    /\ result = None
    /\ PolicyIdle /\ PoolIdle /\ SelfPlayIdle

\* let (starting_value, mut starting_policy) = full_forward(..)?; the noise
\* added to the policy of a search that is not deterministic changes no entry
\* from or to -inf
FullForward ==
    /\ main.pc = "full_forward"
    /\ LET r == full_forward(main.server, main.starting_point)
       IN  main' = [main EXCEPT !.pc = "root", !.starting_value = r.value,
                                !.starting_policy = r.policy]
    /\ UNCHANGED <<search_vars, starting_tree, result, policy_vars, pool_vars, self_play_vars>>

\* the root of the search: the starting tree when one is given, after
\* assert_eq!(starting_tree.to_move, starting_color) and with its prior
\* replaced, and tree::Node::new(starting_color, starting_value,
\* starting_policy) otherwise
ChooseRoot ==
    /\ main.pc = "root"
    /\ IF ~starting_tree.some
       THEN /\ tree' = (<<>> :> NewNode(main.starting_policy))
            /\ main' = [main EXCEPT !.pc = "spawn", !.initial_value = main.starting_value]
       ELSE IF starting_tree.to_move # main.starting_color
            THEN \* the assertion fails and the thread panics
                 /\ main' = [main EXCEPT !.pc = "panicked"]
                 /\ UNCHANGED tree
            ELSE /\ tree' = [starting_tree.tree EXCEPT ![<<>>].prior = main.starting_policy]
                 /\ main' = [main EXCEPT !.pc = "spawn",
                                         !.initial_value = starting_tree.initial_value]
    /\ UNCHANGED <<event_queue, list, num_batches, max_batches, max_batch_size,
                   epoch, wk, next_id, popped_inserts, starting_tree, result,
                   policy_vars, pool_vars, self_play_vars>>

\* the context is made and the workers are started on clones of it: on
\* threads of their own, or the one worker on the thread of the caller when
\* num_workers <= 1
Spawn ==
    /\ main.pc = "spawn"
    /\ wk' = [w \in Workers |->
                IF w = 1 \/ w <= main.num_workers THEN Idle ELSE NotStarted]
    /\ main' = [main EXCEPT !.pc = "join"]
    /\ UNCHANGED <<tree, event_queue, list, num_batches, max_batches,
                   max_batch_size, epoch, next_id, popped_inserts,
                   starting_tree, result, policy_vars, pool_vars, self_play_vars>>

\* the temperature handed to best: config::TEMPERATURE (1 here) in the
\* opening of a search that is not deterministic
Temperature == IF ~main.deterministic /\ main.starting_point.count < 8 THEN 1 ELSE 0

\* Node::best, the answers it can give: the index is the edge with the most
\* visits (temperature 0; the lower index on a tie) or one drawn among the
\* visited edges, and the pass move when no edge has a visit; the value is the
\* one of that edge: -inf when it is disqualified, the initial value of the
\* node while it has no visit, its mean value (not followed here) afterwards
best(node, initial_value, temperature) ==
    LET visited == {m \in Moves : m \notin node.disqualified /\ Count(node, m) > 0}
        most == {m \in visited :
                    \A o \in visited : Count(node, o) < Count(node, m)
                                        \/ (Count(node, o) = Count(node, m) /\ m <= o)}
        chosen == IF visited = {} THEN {Pass}
                  ELSE IF temperature = 0 THEN most ELSE visited
        value(m) == IF m \in node.disqualified THEN NegInf
                    ELSE IF Count(node, m) = 0 THEN Finite(initial_value) ELSE MeanValue
    IN  {[some |-> TRUE, value |-> value(m), index |-> m] : m \in chosen}

\* the workers are joined, assert_eq!(Arc::strong_count(&context.root), 1),
\* and Some((value, index, root)) is returned
Return ==
    /\ main.pc = "join"
    /\ AllDone
    /\ IF strong_count # 1
       THEN main' = [main EXCEPT !.pc = "panicked"] /\ UNCHANGED result
       ELSE /\ main' = [main EXCEPT !.pc = "returned"]
            /\ result' \in best(tree[<<>>], main.initial_value, Temperature)
    /\ UNCHANGED <<search_vars, starting_tree, policy_vars, pool_vars, self_play_vars>>

NextPredict ==
    \/ FullForward
    \/ ChooseRoot
    \/ Spawn
    \/ Return
    \/ \E w \in Workers : StepLive(w)

SpecPredict == InitPredict /\ [][NextPredict]_vars

\* C21: a starting tree whose to_move differs from starting_color is not
\* adopted: a fresh root is made from the computed policy and the search goes
\* on; a starting tree whose to_move matches is adopted with only its prior
\* overwritten.
C21_AsStated ==
    [][main.pc = "root" /\ starting_tree.some =>
          /\ main'.pc = "spawn"
          /\ tree' = IF starting_tree.to_move # main.starting_color
                     THEN (<<>> :> NewNode(main.starting_policy))
                     ELSE [starting_tree.tree EXCEPT ![<<>>].prior = main.starting_policy]]_vars

(* ---------------------------- no move to search ------------------------ *)

\* the search on a root with disqualified edges, every thread running
SpecNoMoves == InitDisqualified /\ [][NextLive]_vars /\ Fairness

\* (-inf, 361)
NoMove == [some |-> TRUE, value |-> NegInf, index |-> Pass]

\* C22: on a root whose edges are all disqualified every worker returns, no
\* insert is performed, root.total_count stays 0, and best(0) answers the
\* pass move with the value -inf.
C22_NoLegalMoves ==
    tree[<<>>].disqualified = Moves =>
        /\ <>AllDone
        /\ [](/\ tree[<<>>].total_count = 0
              /\ popped_inserts = 0
              /\ epoch = 0
              /\ \A w \in Workers : wk[w].pc \notin {"insert", "insert_update"}
              /\ best(tree[<<>>], 0, 0) = {NoMove})

\* reached: every edge of the root is disqualified and both workers have
\* returned from a probe without result, the root untouched
C22_Witness ==
    /\ tree[<<>>].disqualified = Moves
    /\ AllDone
    /\ tree[<<>>].total_count = 0
    /\ tree[<<>>].vtotal_count = 0
    /\ next_id = 1

(* ---------------------------- no finite candidate ---------------------- *)

\* a step of the thread that called predict_aux
StepMain == FullForward \/ ChooseRoot \/ Spawn \/ Return

\* predict_aux with every thread running
SpecPredictLive == SpecPredict /\ WF_vars(StepMain) /\ Fairness

\* the predictor answers every request with the value 0 and a policy that is
\* -inf everywhere, and no starting tree is given
NanOnly ==
    /\ \A t \in ALL : main.server.answer[t] = NanResponse
    /\ ~starting_tree.some

\* C23: with a predictor that answers every request with value 0 and a
\* policy that is -inf everywhere, predict returns the value 0.5 and the pass
\* move; the root has total_count = 0 and vtotal_count = 0, no insert has been
\* performed and no virtual loss is left.
C23_NoFiniteCandidates ==
    NanOnly =>
        /\ <>(main.pc = "returned")
        /\ [](main.pc = "returned" =>
                /\ result = [some |-> TRUE, value |-> Finite(8), index |-> Pass]
                /\ tree[<<>>].total_count = 0
                /\ tree[<<>>].vtotal_count = 0
                /\ \A m \in Moves : tree[<<>>].children[m] = NewEdge
                /\ popped_inserts = 0)

\* reached: predict has returned from a search with the NaN predictor on the
\* empty board, after two workers found no edge to select
C23_Witness ==
    /\ NanOnly
    /\ main.pc = "returned"
    /\ main.starting_point.legal = Moves
    /\ main.num_workers = 2
    /\ result.index = Pass
    /\ tree[<<>>].prior = {}

(* ---------------------------- the board -------------------------------- *)
\* The board of the policy functions, scaled down from 19 x 19 to SIZE x SIZE
\* points. A point is its packed index SIZE * y + x; the pass move comes
\* after the last point (361 in the program).

SIZE == 3

Points == 0..(SIZE * SIZE - 1)

\* Point::default(), the pass move
PassPoint == SIZE * SIZE

X(p) == p % SIZE

Y(p) == p \div SIZE

\* Board::at: None or Some(color)
Stones == {"None"} \cup Colors

\* Board::new
EmptyBoard == [p \in Points |-> "None"]

\* point.offset(dx, dy) lies on the board (Board::is_part_of)
IsPartOf(x, y) == x \in 0..(SIZE - 1) /\ y \in 0..(SIZE - 1)

\* is_vertex_filled: the vertex at the offset is on the board and holds a
\* stone of the color
is_vertex_filled(b, color, point, dx, dy) ==
    LET x == X(point) + dx
        y == Y(point) + dy
    IN  IsPartOf(x, y) /\ b[SIZE * y + x] = color

CROSS == {<<1, 0>>, <<-1, 0>>, <<0, 1>>, <<0, -1>>}

DIAGONAL == {<<1, 1>>, <<1, -1>>, <<-1, 1>>, <<-1, -1>>}

\* a bug: the edge case asks for as many stones as the corner case
is_eyeEdgeAsCorner(b, color, point) ==
    LET num_cross ==
            Cardinality({d \in CROSS : is_vertex_filled(b, color, point, d[1], d[2])})
        num_diagonal ==
            Cardinality({d \in DIAGONAL : is_vertex_filled(b, color, point, d[1], d[2])})
        x == X(point)
        y == Y(point)
    IN  IF (x = 0 \/ x = SIZE - 1) /\ (y = 0 \/ y = SIZE - 1)
        THEN num_cross >= 2 /\ num_diagonal >= 1
        ELSE IF x = 0 \/ x = SIZE - 1 \/ y = 0 \/ y = SIZE - 1
             THEN num_cross >= 2 /\ num_diagonal >= 1
             ELSE num_cross >= 4 /\ num_diagonal >= 3

\* is_eye: the point is surrounded by stones of the color
is_eye(b, color, point) ==
    LET num_cross ==
            Cardinality({d \in CROSS : is_vertex_filled(b, color, point, d[1], d[2])})
        num_diagonal ==
            Cardinality({d \in DIAGONAL : is_vertex_filled(b, color, point, d[1], d[2])})
        x == X(point)
        y == Y(point)
    IN  IF (x = 0 \/ x = SIZE - 1) /\ (y = 0 \/ y = SIZE - 1)
        THEN num_cross >= 2 /\ num_diagonal >= 1          \* corner move
        ELSE IF x = 0 \/ x = SIZE - 1 \/ y = 0 \/ y = SIZE - 1
             THEN num_cross >= 3 /\ num_diagonal >= 2     \* edge
             ELSE num_cross >= 4 /\ num_diagonal >= 3

\* the tests of is_eye start from the empty board
InitEye ==
    /\ board = EmptyBoard
    /\ call = [pc |-> "none"]
    /\ tree = <<>>
    /\ event_queue = <<>>
    /\ list = [features |-> <<>>, events |-> <<>>]
    /\ num_batches = 0
    /\ max_batches = 1
    /\ max_batch_size = 1
    /\ epoch = 0
    /\ wk = [w \in Workers |-> NotStarted]
    /\ next_id = 1
    /\ popped_inserts = 0
    /\ DriverIdle /\ PoolIdle /\ SelfPlayIdle

\* board.place(color, point), on an empty point
Place ==
    /\ call.pc = "none"
    /\ \E color \in Colors, point \in Points :
          /\ board[point] = "None"
          /\ board' = [board EXCEPT ![point] = color]
    /\ UNCHANGED <<call, search_vars, driver_vars, pool_vars, self_play_vars>>

\* is_eye(&board, color, point) is called
IsEye ==
    /\ call.pc = "none"
    /\ \E color \in Colors, point \in Points :
          call' = [pc |-> "is_eye", color |-> color, point |-> point,
                   value |-> is_eye(board, color, point)]
    /\ UNCHANGED <<board, search_vars, driver_vars, pool_vars, self_play_vars>>

NextEye == Place \/ IsEye

SpecEye == InitEye /\ [][NextEye]_vars

AbsVal(i) == IF i < 0 THEN -i ELSE i

\* the orthogonal and the diagonal neighbours of a point
Orthogonal(p) ==
    {q \in Points : AbsVal(X(p) - X(q)) + AbsVal(Y(p) - Y(q)) = 1}

Diagonals(p) ==
    {q \in Points : AbsVal(X(p) - X(q)) = 1 /\ AbsVal(Y(p) - Y(q)) = 1}

\* the stones is_eye asks for around p: 4 and 3 in the middle (a point with
\* four orthogonal neighbours), 3 and 2 on an edge, 2 and 1 in a corner
NeededAround(p) ==
    CASE Cardinality(Orthogonal(p)) = 4 -> <<4, 3>>
      [] Cardinality(Orthogonal(p)) = 3 -> <<3, 2>>
      [] OTHER -> <<2, 1>>

Surrounded(b, color, p) ==
    /\ Cardinality({q \in Orthogonal(p) : b[q] = color}) >= NeededAround(p)[1]
    /\ Cardinality({q \in Diagonals(p) : b[q] = color}) >= NeededAround(p)[2]

MaxStones == 3

\* Transform::apply for the transforms of symmetry::ALL, in the order
\* Identity, FlipLR, FlipUD, Transpose, TransposeAnti, Rot90, Rot180, Rot270
apply(t, p) ==
    LET x == X(p)
        y == Y(p)
        n == SIZE - 1
        at(cx, cy) == SIZE * cy + cx
    IN  CASE t = 1 -> at(x, y)
          [] t = 2 -> at(n - x, y)
          [] t = 3 -> at(x, n - y)
          [] t = 4 -> at(y, x)
          [] t = 5 -> at(n - y, n - x)
          [] t = 6 -> at(n - y, x)
          [] t = 7 -> at(n - x, n - y)
          [] OTHER -> at(y, n - x)

\* Transform::inverse: the two quarter turns undo each other, every other
\* transform undoes itself
inverse(t) == CASE t = 6 -> 8 [] t = 8 -> 6 [] OTHER -> t

\* symmetry::is_symmetric: the transform maps the position onto itself
is_symmetric(b, t) == \A p \in Points : b[apply(t, p)] = b[p]

\* Board::is_valid: the point is empty and a stone placed there has a
\* liberty or joins a group (captures and ko are not followed)
is_valid(b, color, p) ==
    /\ b[p] = "None"
    /\ \E q \in Orthogonal(p) : b[q] \in {"None", color}

\* BensonImpl::is_eye: an empty point enclosed by stones of the color that
\* cannot be captured; taken here as enclosed on every side
benson_is_eye(b, color, p) ==
    /\ b[p] = "None"
    /\ \A q \in Orthogonal(p) \cup Diagonals(p) : b[q] = color

\* the policy checkers of options.rs
Checkers == {"Standard", "Scoring"}

\* a bug: the standard checker asks the board about the pass move too
is_policy_candidateNoPass(checker, b, to_move, point) ==
    /\ point # PassPoint
    /\ is_valid(b, to_move, point)
    /\ checker = "Scoring" =>
          /\ ~benson_is_eye(b, "Black", point) /\ ~benson_is_eye(b, "White", point)
          /\ ~is_eye(b, to_move, point)

\* StandardPolicyChecker::is_policy_candidate and
\* ScoringPolicyChecker::is_policy_candidate
is_policy_candidate(checker, b, to_move, point) ==
    IF checker = "Standard"
    THEN point = PassPoint \/ is_valid(b, to_move, point)
    ELSE /\ point # PassPoint
         /\ ~benson_is_eye(b, "Black", point) /\ ~benson_is_eye(b, "White", point)
         /\ is_valid(b, to_move, point)
         /\ ~is_eye(b, to_move, point)

\* the least packed index of a set of points
MinPoint(S) == CHOOSE p \in S : \A q \in S : p <= q

\* a bug: the greatest target is taken for a point, not the least
create_initial_policyMax(checker, b, to_move) ==
    LET accepted == {p \in 0..PassPoint : is_policy_candidate(checker, b, to_move, p)}
        symmetries == {t \in ALL : is_symmetric(b, t)}
        indices == [i \in 0..PassPoint |->
                      IF i = PassPoint THEN PassPoint
                      ELSE LET S == {apply(t, i) : t \in symmetries}
                           IN  CHOOSE p \in S : \A q \in S : q <= p]
    IN  [policy |-> [i \in 0..PassPoint |->
                       IF i \in accepted /\ (i = PassPoint \/ indices[i] = i)
                       THEN Finite(0) ELSE NegInf],
         indices |-> indices]

\* a bug: the symmetric duplicates are left in the policy
create_initial_policyKeepAll(checker, b, to_move) ==
    LET accepted == {p \in 0..PassPoint : is_policy_candidate(checker, b, to_move, p)}
        symmetries == {t \in ALL : is_symmetric(b, t)}
    IN  [policy |-> [i \in 0..PassPoint |-> IF i \in accepted THEN Finite(0) ELSE NegInf],
         indices |-> [i \in 0..PassPoint |->
                        IF i = PassPoint THEN PassPoint
                        ELSE MinPoint({apply(t, i) : t \in symmetries})]]

\* create_initial_policy: the policy is 0.0 where the checker accepts the
\* move and -inf elsewhere; indices maps a point to the least point some
\* symmetry of the position takes it to, and the pass move to itself; the
\* points that are not their own target are set to -inf
create_initial_policy(checker, b, to_move) ==
    LET accepted == {p \in 0..PassPoint : is_policy_candidate(checker, b, to_move, p)}
        symmetries == {t \in ALL : is_symmetric(b, t)}
        indices == [i \in 0..PassPoint |->
                      IF i = PassPoint THEN PassPoint
                      ELSE MinPoint({apply(t, i) : t \in symmetries})]
    IN  [policy |-> [i \in 0..PassPoint |->
                       IF i \in accepted /\ (i = PassPoint \/ indices[i] = i)
                       THEN Finite(0) ELSE NegInf],
         indices |-> indices]

\* the sum of two f32 that are finite or -inf
Add(a, b) == IF a.finite /\ b.finite THEN Finite(a.x + b.x) ELSE NegInf

\* a bug: the source is moved by the transform, not brought back by its
\* inverse
RECURSIVE add_from_pointForward(_, _, _, _, _)
add_from_pointForward(dst, src, indices, t, i) ==
    IF i = PassPoint THEN dst
    ELSE LET j == indices[apply(t, i)]
         IN  add_from_pointForward([dst EXCEPT ![j] = Add(@, src[i])], src, indices, t, i + 1)

\* the loop of add_valid_candidates from point i on: dst[j] += src[i] with
\* j = indices[t.inverse().apply(point).to_packed_index()]
RECURSIVE add_from_point(_, _, _, _, _)
add_from_point(dst, src, indices, t, i) ==
    IF i = PassPoint THEN dst
    ELSE LET j == indices[apply(inverse(t), i)]
         IN  add_from_point([dst EXCEPT ![j] = Add(@, src[i])], src, indices, t, i + 1)

\* add_valid_candidates: the pass move is copied, then every point
add_valid_candidates(dst, src, indices, t) ==
    add_from_point([dst EXCEPT ![PassPoint] = Add(@, src[PassPoint])], src, indices, t, 0)

\* 2^n
RECURSIVE Pow2(_)
Pow2(n) == IF n = 0 THEN 1 ELSE 2 * Pow2(n - 1)

\* the policies of a response that are merged: one with a different finite
\* value at every move, which tells where each entry went, and the one of the
\* test's NanPredictor
ResponsePolicies ==
    { [p \in 0..PassPoint |-> Finite(Pow2(p))], [p \in 0..PassPoint |-> NegInf] }

\* a stone is placed on a board that has less than MaxStones
PlaceSome ==
    /\ Cardinality({p \in Points : board[p] # "None"}) < MaxStones
    /\ Place

\* create_initial_policy(options, board, to_move) is called
CreateInitialPolicy ==
    /\ call.pc = "none"
    /\ \E checker \in Checkers, to_move \in Colors :
          LET r == create_initial_policy(checker, board, to_move)
          IN  call' = [pc |-> "created", checker |-> checker, to_move |-> to_move,
                       policy |-> r.policy, indices |-> r.indices]
    /\ UNCHANGED <<board, search_vars, driver_vars, pool_vars, self_play_vars>>

\* add_valid_candidates(&mut identity_policy, response.policy(), &indices, t)
\* is called on a copy of the initial policy
AddValidCandidates ==
    /\ call.pc = "created"
    /\ \E t \in ALL, src \in ResponsePolicies :
          call' = [pc |-> "merged", checker |-> call.checker, to_move |-> call.to_move,
                   initial_policy |-> call.policy, indices |-> call.indices,
                   src |-> src, t |-> t,
                   policy |-> add_valid_candidates(call.policy, src, call.indices, t)]
    /\ UNCHANGED <<board, search_vars, driver_vars, pool_vars, self_play_vars>>

NextPolicy == PlaceSome \/ CreateInitialPolicy \/ AddValidCandidates

SpecPolicy == InitEye /\ [][NextPolicy]_vars

C25_FiniteEntries ==
    call.pc = "created" =>
        \A p \in 0..PassPoint :
            /\ call.policy[p] \in {Finite(0), NegInf}
            /\ call.policy[p].finite =>
                  \/ p = PassPoint
                  \/ /\ is_policy_candidate(call.checker, board, call.to_move, p)
                     /\ is_valid(board, call.to_move, p)
                     /\ call.indices[p] = p

\* reached: on a position that is its own mirror image a legal point has been
\* set to -inf for its mirror image, which is finite
C25_Witness ==
    /\ call.pc = "created"
    /\ \E p \in Points :
          /\ is_policy_candidate(call.checker, board, call.to_move, p)
          /\ call.indices[p] # p
          /\ ~call.policy[p].finite
          /\ call.policy[call.indices[p]].finite
    /\ \E p \in Points : board[p] # "None"

\* the elimination of the symmetric duplicates, applied to a policy
Eliminated(policy, indices) ==
    [i \in 0..PassPoint |-> IF indices[i] # i THEN NegInf ELSE policy[i]]

\* C26: the elimination map of create_initial_policy is idempotent,
\* indices[indices[p]] = indices[p], with indices[p] <= p and
\* indices[361] = 361; the elimination applied to the policy it has made
\* gives that policy again.
C26_Idempotent ==
    call.pc = "created" =>
        /\ \A p \in Points : /\ call.indices[call.indices[p]] = call.indices[p]
                             /\ call.indices[p] <= p
        /\ call.indices[PassPoint] = PassPoint
        /\ Eliminated(call.policy, call.indices) = call.policy

\* reached: the map of a position with one stone, which has one symmetry
\* besides the identity, sends some points to a lesser point and keeps others
C26_Witness ==
    /\ call.pc = "created"
    /\ Cardinality({p \in Points : board[p] # "None"}) = 1
    /\ Cardinality({t \in ALL : is_symmetric(board, t)}) = 2
    /\ \E p \in Points : call.indices[p] < p
    /\ \E p \in Points : p > 0 /\ call.indices[p] = p

\* the sum of the entries of src at the points of S
RECURSIVE SumOver(_, _)
SumOver(src, S) ==
    IF S = {} THEN Finite(0)
    ELSE LET p == CHOOSE q \in S : TRUE IN Add(src[p], SumOver(src, S \ {p}))

\* C27: add_valid_candidates adds src[p] to dst[indices[t^-1(p)]] for every
\* point p and src[361] to dst[361]; an entry of dst that was -inf is still
\* -inf, and only the pass move and canonical representatives change.
C27_Merge ==
    call.pc = "merged" =>
        /\ \A j \in Points :
              call.policy[j] =
                  Add(call.initial_policy[j],
                      SumOver(call.src,
                              {p \in Points : call.indices[apply(inverse(call.t), p)] = j}))
        /\ call.policy[PassPoint] = Add(call.initial_policy[PassPoint], call.src[PassPoint])
        /\ \A j \in 0..PassPoint :
              /\ ~call.initial_policy[j].finite => ~call.policy[j].finite
              /\ call.policy[j] # call.initial_policy[j] =>
                    j = PassPoint \/ call.indices[j] = j

\* reached: a response has been merged under a quarter turn into the policy
\* of a position with a symmetry, and a representative has received the
\* entries of two points
C27_Witness ==
    /\ call.pc = "merged"
    /\ call.t = 6
    /\ \E j \in Points :
          /\ call.policy[j].finite
          /\ Cardinality({p \in Points : call.indices[apply(inverse(call.t), p)] = j}) = 2
          /\ call.policy[j].x > 0

(* ---------------------------- the worker pool -------------------------- *)
\* Pool::enqueue and the threads of the pool. The worker threads
\* (pool/worker_thread.rs) are not part of the sources at hand: a worker is
\* taken to reach a search only through a clone of its Arc<SearchContext>,
\* which it takes from Pool.searches, and is otherwise free in what it does.

\* the threads that call enqueue on the pool, once each
Callers == {1, 2}

\* the worker threads of the pool
PoolWorkers == {1, 2}

\* the ids searches_count.fetch_add gives to the searches
SearchIds == 0..(Cardinality(Callers) - 1)

\* the changes the workers make to the root of one search
MaxWrites == 1

\* no search of predict_aux runs
NoSearch ==
    /\ tree = <<>>
    /\ event_queue = <<>>
    /\ list = [features |-> <<>>, events |-> <<>>]
    /\ num_batches = 0
    /\ max_batches = 1
    /\ max_batch_size = 1
    /\ epoch = 0
    /\ wk = [w \in Workers |-> NotStarted]
    /\ next_id = 1
    /\ popped_inserts = 0

\* Pool::with_capacity: no search yet, the worker threads are running
InitPool ==
    /\ searches = {}
    /\ searches_count = 0
    /\ callers = [c \in Callers |-> [pc |-> "idle", id |-> 0, result |-> None]]
    /\ pool_wk = [w \in PoolWorkers |-> {}]
    /\ channel = [s \in SearchIds |-> 0]
    /\ roots = [s \in SearchIds |-> 0]
    /\ shared_context = [is_running |-> TRUE, running |-> PoolWorkers]
    /\ NoSearch /\ DriverIdle /\ PolicyIdle /\ SelfPlayIdle

\* Arc::strong_count(&search_context): the one of the caller inside enqueue,
\* the one in Pool.searches, and the clones the workers hold
search_strong_count(s) ==
    Cardinality({c \in Callers : callers[c].id = s
                                  /\ callers[c].pc \in {"push", "recv", "wait"}})
        + (IF s \in searches THEN 1 ELSE 0)
        + Cardinality({w \in PoolWorkers : s \in pool_wk[w]})

\* enqueue: the channel, searches_count.fetch_add(1) and the search context
EnqueueNew(c) ==
    /\ callers[c].pc = "idle"
    /\ callers' = [callers EXCEPT ![c].pc = "push", ![c].id = searches_count]
    /\ searches_count' = searches_count + 1
    /\ UNCHANGED <<searches, pool_wk, channel, roots>>

\* enqueue: self.searches.write().push(search_context.clone()), and
\* ensure_threads, which finds the threads running
EnqueuePush(c) ==
    /\ callers[c].pc = "push"
    /\ searches' = searches \cup {callers[c].id}
    /\ callers' = [callers EXCEPT ![c].pc = "recv"]
    /\ UNCHANGED <<searches_count, pool_wk, channel, roots>>

\* enqueue: rx.recv().ok(); the sender lives in the search context, which the
\* caller holds, so the channel is not disconnected
EnqueueRecv(c) ==
    /\ callers[c].pc = "recv"
    /\ channel[callers[c].id] > 0
    /\ channel' = [channel EXCEPT ![callers[c].id] = @ - 1]
    /\ callers' = [callers EXCEPT ![c].pc = "wait", ![c].result = [some |-> TRUE]]
    /\ UNCHANGED <<searches, searches_count, pool_wk, roots>>

\* a bug: enqueue returns without waiting for the clones to be dropped
EnqueueWaitNoCheck(c) ==
    /\ callers[c].pc = "wait"
    /\ callers' = [callers EXCEPT ![c].pc = "returned"]
    /\ UNCHANGED <<searches, searches_count, pool_wk, channel, roots>>

\* enqueue: while Arc::strong_count(&search_context) > 1 { backoff.snooze() },
\* then the result is returned
EnqueueWait(c) ==
    /\ callers[c].pc = "wait"
    /\ ~(search_strong_count(callers[c].id) > 1)
    /\ callers' = [callers EXCEPT ![c].pc = "returned"]
    /\ UNCHANGED <<searches, searches_count, pool_wk, channel, roots>>

\* a worker clones a search context of Pool.searches
WorkerTake(w) ==
    /\ \E s \in searches \ pool_wk[w] : pool_wk' = [pool_wk EXCEPT ![w] = @ \cup {s}]
    /\ UNCHANGED <<searches, searches_count, callers, channel, roots>>

\* a worker probes or inserts into the root of a search it holds
WorkerWrite(w) ==
    /\ \E s \in pool_wk[w] : /\ roots[s] < MaxWrites
                             /\ roots' = [roots EXCEPT ![s] = @ + 1]
    /\ UNCHANGED <<searches, searches_count, callers, pool_wk, channel>>

\* a worker takes a search that is done out of Pool.searches
WorkerRemove(w) ==
    /\ \E s \in pool_wk[w] \cap searches : searches' = searches \ {s}
    /\ UNCHANGED <<searches_count, callers, pool_wk, channel, roots>>

\* a worker reports the end of a search on its channel (bounded(1))
WorkerSend(w) ==
    /\ \E s \in pool_wk[w] : /\ channel[s] = 0
                             /\ channel' = [channel EXCEPT ![s] = 1]
    /\ UNCHANGED <<searches, searches_count, callers, pool_wk, roots>>

\* a worker drops its clone of a search context
WorkerDrop(w) ==
    /\ \E s \in pool_wk[w] : pool_wk' = [pool_wk EXCEPT ![w] = @ \ {s}]
    /\ UNCHANGED <<searches, searches_count, callers, channel, roots>>

NextPool ==
    /\ \/ \E c \in Callers : \/ EnqueueNew(c)
                             \/ EnqueuePush(c)
                             \/ EnqueueRecv(c)
                             \/ EnqueueWait(c)
       \/ \E w \in PoolWorkers : \/ WorkerTake(w)
                                 \/ WorkerWrite(w)
                                 \/ WorkerRemove(w)
                                 \/ WorkerSend(w)
                                 \/ WorkerDrop(w)
    /\ UNCHANGED <<shared_context, search_vars, driver_vars, policy_vars,
                   self_play_vars>>

SpecPool == InitPool /\ [][NextPool]_vars

\* C28: when enqueue has returned, no worker holds a reference to the
\* context of that search and it is in Pool.searches no more; from then on no
\* worker changes the root of the search.
C28_NoWorkerAfterReturn ==
    /\ [](\A c \in Callers :
            callers[c].pc = "returned" =>
                /\ callers[c].id \notin searches
                /\ \A w \in PoolWorkers : callers[c].id \notin pool_wk[w])
    /\ [][\A c \in Callers :
            callers[c].pc = "returned" => roots'[callers[c].id] = roots[callers[c].id]]_vars

\* reached: one call of enqueue has returned with a result after its root was
\* changed, while a worker holds the context of the other search and is
\* changing that root
C28_Witness ==
    \E c \in Callers, w \in PoolWorkers :
        /\ callers[c].pc = "returned"
        /\ callers[c].result.some
        /\ roots[callers[c].id] = MaxWrites
        /\ pool_wk[w] # {}
        /\ \E d \in Callers : callers[d].pc = "recv" /\ roots[callers[d].id] > 0

(* ------------------------------ self play ------------------------------ *)
\* self_play and the moves of self_play_one that read the number of running
\* game threads. A game is its number of moves; what predict_aux answers
\* decides only when the game ends.

\* the largest num_games
MaxGames == 3

\* the largest config::NUM_GAMES
MaxParallel == 2

\* the largest config::NUM_THREADS
MaxThreads == 2

\* the moves of a game before it is ended (722 in self_play_one)
MaxMoves == 2

\* self_play up to its loop: the channel, num_parallel, the two counters
InitSelfPlay ==
    /\ num_games \in 0..MaxGames
    /\ config \in [NUM_GAMES : 1..MaxParallel, NUM_THREADS : 1..MaxThreads]
    /\ processed = 0
    /\ num_parallel = Min(num_games, config.NUM_GAMES)
    /\ game_threads = <<>>
    /\ spawned = 0
    /\ played = 0
    /\ receiver = "self_play"
    /\ remaining = 0
    /\ NoSearch /\ DriverIdle /\ PolicyIdle /\ PoolIdle

\* for _ in 0..num_parallel { thread::spawn(..) }
SpawnGame ==
    /\ receiver = "self_play"
    /\ spawned < Min(num_games, config.NUM_GAMES)
    /\ spawned' = spawned + 1
    /\ game_threads' = Append(game_threads, [pc |-> "loop", count |-> 0])
    /\ UNCHANGED <<num_games, config, processed, num_parallel, played, receiver>>

\* self_play returns (receiver, server)
ReturnSelfPlay ==
    /\ receiver = "self_play"
    /\ ~(spawned < Min(num_games, config.NUM_GAMES))
    /\ receiver' = "caller"
    /\ UNCHANGED <<num_games, config, processed, num_parallel, game_threads, spawned, played>>

\* the caller of self_play drops the receiver
DropReceiver ==
    /\ receiver = "caller"
    /\ receiver' = "dropped"
    /\ UNCHANGED <<num_games, config, processed, num_parallel, game_threads, spawned, played>>

\* a bug: the game thread plays while processed.fetch_add(1) <= num_games
GameLoopInclusive(t) ==
    /\ game_threads[t].pc = "loop"
    /\ processed' = processed + 1
    /\ game_threads' = [game_threads EXCEPT ![t] =
            [pc |-> IF processed <= num_games THEN "play" ELSE "exit", count |-> 0]]
    /\ UNCHANGED <<num_games, config, num_parallel, spawned, played, receiver>>

\* while processed.fetch_add(1, SeqCst) < num_games
GameLoop(t) ==
    /\ game_threads[t].pc = "loop"
    /\ processed' = processed + 1
    /\ game_threads' = [game_threads EXCEPT ![t] =
            [pc |-> IF processed < num_games THEN "play" ELSE "exit", count |-> 0]]
    /\ UNCHANGED <<num_games, config, num_parallel, spawned, played, receiver>>

\* self_play_one: while count < 722, one move: NUM_THREADS / num_parallel
\* (a division by zero panics), the search, and the game goes on or is over
\* (resignation, two passes); after the loop the game is over
GameMove(t) ==
    /\ game_threads[t].pc = "play"
    /\ \E over \in BOOLEAN :
          LET go_on == game_threads[t].count < MaxMoves
              ended == ~go_on \/ over
          IN /\ game_threads' = [game_threads EXCEPT ![t] =
                    IF go_on /\ num_parallel = 0 THEN [@ EXCEPT !.pc = "panicked"]
                    ELSE IF ended THEN [@ EXCEPT !.pc = "send"]
                    ELSE [@ EXCEPT !.count = @ + 1]]
             /\ played' = IF ended /\ ~(go_on /\ num_parallel = 0)
                          THEN played + 1 ELSE played
    /\ UNCHANGED <<num_games, config, processed, num_parallel, spawned, receiver>>

\* if sender.send(result).is_err() { break }
GameSend(t) ==
    /\ game_threads[t].pc = "send"
    /\ game_threads' = [game_threads EXCEPT ![t].pc =
            IF receiver = "dropped" THEN "exit" ELSE "loop"]
    /\ UNCHANGED <<num_games, config, processed, num_parallel, spawned, played, receiver>>

\* num_workers.fetch_sub(1, Release), the end of the game thread
GameExit(t) ==
    /\ game_threads[t].pc = "exit"
    /\ num_parallel' = num_parallel - 1
    /\ game_threads' = [game_threads EXCEPT ![t].pc = "done"]
    /\ UNCHANGED <<num_games, config, processed, spawned, played, receiver>>

NextSelfPlay ==
    /\ \/ SpawnGame
       \/ ReturnSelfPlay
       \/ DropReceiver
       \/ \E t \in DOMAIN game_threads : \/ GameLoop(t)
                                         \/ GameMove(t)
                                         \/ GameSend(t)
                                         \/ GameExit(t)
    /\ UNCHANGED <<remaining, search_vars, driver_vars, policy_vars, pool_vars>>

SpecSelfPlay == InitSelfPlay /\ [][NextSelfPlay]_vars

\* C29: self_play starts min(num_games, NUM_GAMES) game threads; while the
\* receiver is connected they never play more than num_games games and, once
\* they have all ended, have played exactly num_games; no move of a game
\* divides NUM_THREADS by a num_parallel of zero.
C29_SelfPlay ==
    /\ Len(game_threads) <= Min(num_games, config.NUM_GAMES)
    /\ receiver # "self_play" => Len(game_threads) = Min(num_games, config.NUM_GAMES)
    /\ receiver # "dropped" => played <= num_games
    /\ ( /\ receiver = "caller"
         /\ \A t \in DOMAIN game_threads : game_threads[t].pc = "done" )
            => played = num_games
    /\ \A t \in DOMAIN game_threads :
          /\ game_threads[t].pc # "panicked"
          /\ game_threads[t].pc = "play" => num_parallel >= 1

\* reached: two game threads have played more games than there are threads,
\* all of them, the receiver is connected and both threads have ended
C29_Witness ==
    /\ receiver = "caller"
    /\ Len(game_threads) = 2
    /\ num_games > Len(game_threads)
    /\ played = num_games
    /\ num_parallel = 0
    /\ \A t \in DOMAIN game_threads : game_threads[t].pc = "done"

(* ------------------------------ random komi ---------------------------- *)
\* get_random_komi. A komi is written as twice its value, so that 7.5 is 15
\* and `value as f32 + 0.5` is 2 * value + 1; the f32 of thread_rng().gen()
\* is written in hundredths.

\* thread_rng().gen::<f32>(), a value in [0, 1), in hundredths
Hundredths == 0..99

\* thread_rng().gen_range(-8..8): the upper end is not drawn
KomiRange == -8..7

\* a bug: the half point is taken off the drawn integer
get_random_komiBelow(value, drawn) ==
    IF value < 40 THEN 15
    ELSE IF value < 80 THEN 13
    ELSE IF value < 90 THEN 1
    ELSE 2 * drawn - 1

\* get_random_komi, twice its result
get_random_komi(value, drawn) ==
    IF value < 40 THEN 15
    ELSE IF value < 80 THEN 13
    ELSE IF value < 90 THEN 1
    ELSE 2 * drawn + 1

\* no call is being made: nothing of the search, the driver, the pool or the
\* games is in use
InitCall ==
    /\ NoSearch /\ DriverIdle /\ PolicyIdle /\ PoolIdle /\ SelfPlayIdle

\* get_random_komi() is called; the range is drawn only in the last branch
GetRandomKomi ==
    /\ call.pc = "none"
    /\ \E value \in Hundredths, drawn \in KomiRange :
          /\ value < 90 => drawn = 0
          /\ call' = [pc |-> "get_random_komi", value |-> value, drawn |-> drawn,
                      komi |-> get_random_komi(value, drawn)]
    /\ UNCHANGED <<board, search_vars, driver_vars, pool_vars, self_play_vars>>

\* the call is over, the next one can be made (tests::valid_komi makes 10000)
ReturnCall ==
    /\ call.pc # "none"
    /\ call' = [pc |-> "none"]
    /\ UNCHANGED <<board, search_vars, driver_vars, pool_vars, self_play_vars>>

NextKomi == GetRandomKomi \/ ReturnCall

SpecKomi == InitCall /\ [][NextKomi]_vars

\* C31: whatever is drawn, get_random_komi returns a komi k with
\* -7.5 <= k <= 7.5 for which k - 0.5 is an integer (twice the komi is odd
\* and between -15 and 15).
C31_ValidKomi ==
    call.pc = "get_random_komi" =>
        /\ -15 <= call.komi /\ call.komi <= 15
        /\ (call.komi - 1) % 2 = 0

\* reached: the last branch drew the lowest integer and the komi is -7.5
C31_Witness ==
    /\ call.pc = "get_random_komi"
    /\ call.value >= 90
    /\ call.drawn = -8
    /\ call.komi = -15

(* ------------------------- the kinds in the queue ---------------------- *)

\* C32: no event in the event queue has kind Pending, every event there is
\* Predict or Insert, and no worker runs the unreachable!() arm of
\* predict_worker.
C32_NoPendingQueued ==
    /\ \A i \in DOMAIN event_queue : event_queue[i].kind \in {"Predict", "Insert"}
    /\ \A w \in Workers : wk[w].pc # "unreachable"

\* reached: the queue holds an Insert event that came back from the predictor
\* and, behind it, a Predict event of a probe
C32_Witness ==
    /\ Len(event_queue) = 2
    /\ event_queue[1].kind = "Insert"
    /\ event_queue[2].kind = "Predict"

(* ----------------------- the events of the batcher --------------------- *)

\* the ids of the events of a sequence of events
IdsOf(events) == {events[i].id : i \in DOMAIN events}

\* the workers that hold the event with this id in a harvested batch
BatchHolders(id) == {w \in Workers : id \in IdsOf(wk[w].batch)}

\* the places of the pending list that hold the event with this id
ListPlaces(id) == {i \in DOMAIN list.events : list.events[i].id = id}

\* C33: a pushed event is in the pending list; an event of the pending list
\* is, after every step, either still there or in the batch of exactly one
\* worker; no event is at two places of the list, in the list and in a batch,
\* or in two batches.
C33_NoEventLostOrTwice ==
    /\ [](\A id \in 1..MaxEvents :
            Cardinality(ListPlaces(id)) + Cardinality(BatchHolders(id)) <= 1)
    /\ [](\A w \in Workers : \A i, j \in DOMAIN wk[w].batch :
            wk[w].batch[i].id = wk[w].batch[j].id => i = j)
    /\ [][\A w \in Workers :
            (wk[w].pc = "push" /\ wk'[w].pc # "push") =>
                \A id \in {wk[w].event.id} : ListPlaces(id)' # {}]_vars
    /\ [][\A id \in IdsOf(list.events) :
            (Cardinality(ListPlaces(id)') + Cardinality(BatchHolders(id)') = 1)]_vars

\* reached: a worker has harvested a batch and is in the predictor while the
\* other worker, which has just pushed its event, is about to call get_batch
\* on a list that holds that event
C33_Witness ==
    \E w, v \in Workers :
        /\ wk[w].pc = "forward" /\ wk[w].batch # <<>>
        /\ wk[v].pc \in {"get_batch", "get_batch_locked"} /\ wk[v].site = "predict"
        /\ list.events # <<>>

(* ----------------------- features and their events --------------------- *)

\* C34: the pending list holds FEATURE_SIZE features per event, in the order
\* of its events; so does every harvested batch when it is given to the
\* predictor; and the response that is paired with an event on its way back
\* to the queue was computed from the features of that event.
C34_FeaturesAligned ==
    /\ Len(list.features) = Len(list.events) * FEATURE_SIZE
    /\ \A i \in DOMAIN list.events :
          Block(list.features, i) = FeaturesOf(list.events[i])
    /\ \A w \in Workers :
          /\ wk[w].pc = "forward" =>
                /\ Len(wk[w].features) = Len(wk[w].batch) * FEATURE_SIZE
                /\ \A i \in DOMAIN wk[w].batch :
                      Block(wk[w].features, i) = FeaturesOf(wk[w].batch[i])
          /\ wk[w].pc = "requeue" =>
                /\ Len(wk[w].responses) = Len(wk[w].batch)
                /\ \A i \in DOMAIN wk[w].batch :
                      wk[w].responses[i] = FeaturesOf(wk[w].batch[i])

\* reached: a batch of two events has been answered and its first event is
\* queued again, the second is about to be paired with its response
C34_Witness ==
    \E w \in Workers :
        /\ wk[w].pc = "requeue"
        /\ Len(wk[w].batch) = 1
        /\ Len(wk[w].features) = 2 * FEATURE_SIZE
        /\ wk[w].responses = <<FeaturesOf(wk[w].batch[1])>>
        /\ event_queue # <<>>

(* ------------------------- the end of the search ----------------------- *)

\* the tree carries no virtual loss: every edge has as many virtual visits
\* as it was given by (no more than) its real visits
NoVirtualLoss ==
    \A path \in DOMAIN tree :
        /\ tree[path].vtotal_count = tree[path].total_count
        /\ \A m \in Moves : tree[path].children[m].vcount = 0

\* C35, as stated: when all workers of the search have exited, the event
\* queue and the pending list of the batcher are empty and the tree carries
\* no virtual loss.
C35_AsStated ==
    AllDone => /\ event_queue = <<>>
               /\ list.events = <<>>
               /\ NoVirtualLoss

(* ------------------------ the way through the batcher ------------------ *)
\* predict_worker in a search that is never done, in a game large enough
\* for tree::probe to find a leaf whenever there is room for one more event.
\* The tree, the epoch and the counters of the events are not followed: an
\* event is known by an id that is free again once the event is inserted.

\* the ids of the events under way: one for each worker and one more
LiveIds == 1..(Cardinality(Workers) + 1)

\* the ids no event under way has
FreeIds == LiveIds \ IdsOf(AllEvents)

\* a root without a visit, for which is_done is false, and both workers at
\* the head of their loop
InitBatcher ==
    /\ tree = (<<>> :> NewNode(Moves))
    /\ event_queue = <<>>
    /\ list = [features |-> <<>>, events |-> <<>>]
    /\ num_batches = 0
    /\ max_batches \in 1..Cardinality(Workers)
    /\ max_batch_size \in 1..MaxEvents
    /\ epoch = 0
    /\ wk = [w \in Workers |-> Idle]
    /\ next_id = 1
    /\ popped_inserts = 0
    /\ OutsideSearch

\* the head of the loop when the search is not done: event_queue.pop() with
\* into_pending, and the match on it
PopEvent(w) ==
    /\ wk[w].pc = "while"
    /\ \E res \in TimeStrategyResults : ~is_done(tree[<<>>], res)
    /\ IF event_queue = <<>>
       THEN /\ wk' = [wk EXCEPT ![w].pc = "get_batch", ![w].site = "none"]
            /\ UNCHANGED event_queue
       ELSE LET r == IntoPending(Head(event_queue))
            IN  /\ event_queue' = Tail(event_queue)
                /\ wk' = [wk EXCEPT ![w].event = r[2],
                                    ![w].pc = CASE r[1] = "Predict" -> "push"
                                                [] r[1] = "Insert" -> "insert"
                                                [] OTHER -> "unreachable"]
    /\ UNCHANGED <<tree, list, num_batches, epoch, next_id, popped_inserts, Others>>

\* tree::probe and the match on its result: Found, and the Predict event is
\* pushed to the queue, or Conflict, and the worker yields
ProbeAny(w) ==
    /\ wk[w].pc = "probe"
    /\ IF FreeIds # {}
       THEN \E id \in {CHOOSE x \in FreeIds : \A y \in FreeIds : x <= y} :
               event_queue' = Append(event_queue, EventPredict(id, <<>>))
       ELSE UNCHANGED event_queue
    /\ wk' = [wk EXCEPT ![w] = Idle]
    /\ UNCHANGED <<tree, list, num_batches, epoch, next_id, popped_inserts, Others>>

\* the Insert arm: the event is inserted into the tree and is no more
InsertAny(w) ==
    /\ wk[w].pc = "insert"
    /\ wk' = [wk EXCEPT ![w] = Idle]
    /\ UNCHANGED <<tree, event_queue, list, num_batches, epoch, next_id,
                   popped_inserts, Others>>

\* a step of worker w
StepBatcher(w) ==
    \/ PopEvent(w)
    \/ Push(w)
    \/ GetBatchLoad(w)
    \/ GetBatchLocked(w)
    \/ ForwardPredict(w)
    \/ ForwardFetchSub(w)
    \/ Requeue(w)
    \/ ProbeAny(w)
    \/ InsertAny(w)

NextBatcher == \E w \in Workers : StepBatcher(w)

\* worker w harvests a batch that holds the event with this id
HarvestOf(w, id) == Harvest(w) /\ id \in IdsOf(wk'[w].batch)

\* every worker keeps running, the predictor answers, and
\* compare_exchange_weak does not fail spuriously for ever, whatever the
\* event it would harvest
FairnessBatcher ==
    \A w \in Workers :
        /\ WF_vars(StepBatcher(w))
        /\ \A id \in LiveIds : SF_vars(HarvestOf(w, id))

SpecBatcherLive == InitBatcher /\ [][NextBatcher]_vars /\ FairnessBatcher

\* C36, as stated: with fair workers, a predictor that answers and a search
\* that is not done, every event pushed to the batcher is eventually
\* harvested into a batch (and later inserted).
C36_AsStated ==
    \A id \in LiveIds : (ListPlaces(id) # {}) ~> (ListPlaces(id) = {})

(* ----------------------- forward of the policy player ------------------ *)
\* forward of mcts/mod.rs, from the masking of the policy to the elimination
\* of the symmetric moves. What it asks the board is drawn: the transforms
\* for which symmetry::is_symmetric answers true are a subgroup of the eight
\* and the points for which board.is_valid answers true are mapped onto
\* themselves by them (a 19 x 19 board has positions with every one of these
\* groups, the board of SIZE 3 has none whose group is the quarter turns
\* alone). A policy is the set of the points where it is finite.

\* SYMM: Identity, FlipLR, FlipUD, Transpose, TransposeAnti, Rot90, Rot180,
\* Rot270, in this order
SYMM == <<1, 2, 3, 4, 5, 6, 7, 8>>

\* the sets of transforms that are the symmetries of some position
Subgroups ==
    {S \in SUBSET ALL :
        /\ 1 \in S
        /\ \A a, b \in S : \E c \in S :
              \A p \in Points : apply(c, p) = apply(a, apply(b, p))}

\* the answers of board.is_valid that go with the symmetries S
ValidSets(S) ==
    {L \in SUBSET Points : \A t \in S : \A p \in L : apply(t, p) \in L}

\* the loop over i of one symmetric transform t, from point i on:
\* failed when the assertion on policy[dst] fails
RECURSIVE eliminate(_, _, _, _)
eliminate(t, i, finite, visited) ==
    IF i = SIZE * SIZE THEN [finite |-> finite, failed |-> FALSE]
    ELSE LET j == apply(t, i)
             src == IF i > j THEN i ELSE j
             dst == IF i < j THEN i ELSE j
         IN  IF i # j /\ i \notin visited
             THEN IF src \in finite
                  THEN IF dst \notin finite
                       THEN [finite |-> finite, failed |-> TRUE]
                       ELSE eliminate(t, i + 1, finite \ {src}, visited \cup {i, j})
                  ELSE eliminate(t, i + 1, finite, visited \cup {i, j})
             ELSE eliminate(t, i + 1, finite, visited)

\* for &t in &SYMM[1..8], from the k-th transform of SYMM on
RECURSIVE eliminate_from(_, _, _)
eliminate_from(k, symmetric, finite) ==
    IF k > Len(SYMM) THEN [finite |-> finite, failed |-> FALSE]
    ELSE IF SYMM[k] \notin symmetric THEN eliminate_from(k + 1, symmetric, finite)
    ELSE LET r == eliminate(SYMM[k], 0, finite, {})
         IN  IF r.failed THEN r ELSE eliminate_from(k + 1, symmetric, r.finite)

\* forward: the policy of the network is finite, the points that are not
\* valid are set to -inf, then the symmetric moves are eliminated
forward(symmetric, valid) == eliminate_from(2, symmetric, valid)

\* forward(server, board, color) is called
Forward ==
    /\ call.pc = "none"
    /\ \E symmetric \in Subgroups : \E valid \in ValidSets(symmetric) :
          LET r == forward(symmetric, valid)
          IN  call' = [pc |-> IF r.failed THEN "panicked" ELSE "forward",
                       symmetric |-> symmetric, valid |-> valid, finite |-> r.finite]
    /\ UNCHANGED <<board, search_vars, driver_vars, pool_vars, self_play_vars>>

NextForward == Forward \/ ReturnCall

SpecForward == InitCall /\ [][NextForward]_vars

\* C37, as stated: whatever subgroup of the eight transforms the symmetries
\* of the board are, and whatever the valid points, when they are invariant
\* under these symmetries, the assertion of forward on the lower point of a
\* pair never fails.
C37_AsStated == call.pc # "panicked"

(* ------------------------- the lead of the best child ------------------ *)
\* min_promote_rollouts on roots with more children than the search above
\* has, with every combination of visit counts.

\* the largest visit count of a child
MaxCount == 3

\* the children of the roots that are tried
Children == 0..3

\* the roots: a visit count for every child, with and without a virtual
\* visit on child 0
PromoteRoots ==
    {[children |-> [m \in Children |->
                      [count |-> c[m], vcount |-> IF m = v THEN 1 ELSE 0, ptr |-> "null"]]] :
        c \in [Children -> 0..MaxCount], v \in {-1, 0}}

\* min_promote_rollouts(root) is called
MinPromoteRollouts ==
    /\ call.pc = "none"
    /\ \E root \in PromoteRoots :
          call' = [pc |-> "min_promote_rollouts", root |-> root,
                   value |-> min_promote_rollouts(root)]
    /\ UNCHANGED <<board, search_vars, driver_vars, pool_vars, self_play_vars>>

NextPromote == MinPromoteRollouts \/ ReturnCall

SpecPromote == InitCall /\ [][NextPromote]_vars

\* the largest visit count among the children other than top_1
RunnerUpCount(root, top_1) ==
    LET counts == {root.children[m].count : m \in DOMAIN root.children \ {top_1}}
    IN  CHOOSE c \in counts : \A d \in counts : d <= c

\* C38: min_promote_rollouts(root) is max(0, c1 - c2), with c1 the visit
\* count of the child argmax_count chooses and c2 the largest visit count of
\* the other children, whichever child argmax_count chooses.
C38_Lead ==
    call.pc = "min_promote_rollouts" =>
        LET top_1 == ArgmaxCount(call.root)
            c1 == call.root.children[top_1].count
            c2 == RunnerUpCount(call.root, top_1)
        IN  /\ \A m \in DOMAIN call.root.children : call.root.children[m].count <= c1
            /\ call.value = IF c1 - c2 > 0 THEN c1 - c2 ELSE 0

\* reached: child 0 has the most visits, the runner-up is neither child 0 nor
\* child 1, and the lead is 2
C38_Witness ==
    /\ call.pc = "min_promote_rollouts"
    /\ ArgmaxCount(call.root) = 0
    /\ call.root.children[1].count = 0
    /\ call.root.children[3].count = 1
    /\ call.value = 2

(***************************************************************************)
(* Pool: the clones of a pool and its Drop                                 *)
(***************************************************************************)

\* Pool::with_capacity, then one clone of the pool handed to every caller:
\* the clones share shared_context, searches_count, searches and handles
InitPoolDrop ==
    /\ searches = {}
    /\ searches_count = 0
    /\ callers = [c \in Callers |->
                     [pc |-> "idle", id |-> 0, result |-> None, pool |-> "held"]]
    /\ pool_wk = [w \in PoolWorkers |-> {}]
    /\ channel = [s \in SearchIds |-> 0]
    /\ roots = [s \in SearchIds |-> 0]
    /\ shared_context = [is_running |-> TRUE, running |-> PoolWorkers]
    /\ NoSearch /\ DriverIdle /\ PolicyIdle /\ SelfPlayIdle

\* Pool::enqueue called on the clone of caller c; ensure_threads spawns no
\* thread, since num_running is the capacity or is_running is false
Enqueue(c) ==
    /\ callers[c].pool = "held"
    /\ \/ EnqueueNew(c)
       \/ EnqueuePush(c)
       \/ EnqueueRecv(c)
       \/ EnqueueWait(c)
    /\ UNCHANGED shared_context

\* Drop for Pool, on the clone of caller c:
\* self.shared_context.is_running.store(false, Ordering::Release)
DropStore(c) ==
    /\ callers[c].pool = "held"
    /\ callers[c].pc \in {"idle", "returned"}
    /\ callers' = [callers EXCEPT ![c].pool = "dropping"]
    /\ shared_context' = [shared_context EXCEPT !.is_running = FALSE]
    /\ UNCHANGED <<searches, searches_count, pool_wk, channel, roots>>

\* Drop for Pool: every handle of self.handles is joined
DropJoin(c) ==
    /\ callers[c].pool = "dropping"
    /\ shared_context.running = {}
    /\ callers' = [callers EXCEPT ![c].pool = "dropped"]
    /\ UNCHANGED <<searches, searches_count, pool_wk, channel, roots,
                   shared_context>>

\* a worker thread that is still running works on the searches
WorkerRun(w) ==
    /\ w \in shared_context.running
    /\ \/ WorkerTake(w)
       \/ WorkerWrite(w)
       \/ WorkerRemove(w)
       \/ WorkerSend(w)
       \/ WorkerDrop(w)
    /\ UNCHANGED shared_context

\* a worker thread finds is_running false: it drops what it holds and exits
WorkerExit(w) ==
    /\ w \in shared_context.running
    /\ ~shared_context.is_running
    /\ pool_wk' = [pool_wk EXCEPT ![w] = {}]
    /\ shared_context' = [shared_context EXCEPT !.running = @ \ {w}]
    /\ UNCHANGED <<searches, searches_count, callers, channel, roots>>

NextPoolDrop ==
    /\ \/ \E c \in Callers : \/ Enqueue(c)
                             \/ DropStore(c)
                             \/ DropJoin(c)
       \/ \E w \in PoolWorkers : \/ WorkerRun(w)
                                 \/ WorkerExit(w)
    /\ UNCHANGED <<search_vars, driver_vars, policy_vars, self_play_vars>>

SpecPoolDrop == InitPoolDrop /\ [][NextPoolDrop]_vars

\* a caller is inside enqueue on its clone, waiting for the result, and no
\* worker thread is left to send one
EnqueueStuck ==
    \E c \in Callers : /\ callers[c].pool = "held"
                       /\ callers[c].pc = "recv"
                       /\ channel[callers[c].id] = 0
                       /\ shared_context.running = {}

\* C39: while a clone of the pool is alive, the worker threads have not been
\* told to stop and all of them run, and no search enqueued on that clone is
\* left without a worker thread to serve it
C39_AsStated ==
    /\ (\E c \in Callers : callers[c].pool = "held")
           => /\ shared_context.is_running
              /\ shared_context.running = PoolWorkers
    /\ ~EnqueueStuck

(***************************************************************************)
(* policy_play                                                             *)
(***************************************************************************)

\* the width of usize, narrowed
UsizeBits == 4

\* the games played before the threads are stopped
MaxPlayed == 6

\* policy_play up to its loop: the channel and the remaining counter
InitPolicyPlay ==
    /\ num_games \in 0..MaxGames
    /\ config \in [NUM_GAMES : 1..MaxParallel]
    /\ processed = 0
    /\ num_parallel = 0
    /\ game_threads = <<>>
    /\ spawned = 0
    /\ played = 0
    /\ receiver = "policy_play"
    /\ remaining = num_games
    /\ NoSearch /\ DriverIdle /\ PolicyIdle /\ PoolIdle

\* for _ in 0..num_workers { thread::spawn(..) }
SpawnPolicy ==
    /\ receiver = "policy_play"
    /\ spawned < Min(config.NUM_GAMES, num_games)
    /\ spawned' = spawned + 1
    /\ game_threads' = Append(game_threads, [pc |-> "load"])
    /\ UNCHANGED <<num_games, config, processed, num_parallel, played, receiver,
                   remaining>>

\* policy_play returns (receiver, server)
ReturnPolicyPlay ==
    /\ receiver = "policy_play"
    /\ ~(spawned < Min(config.NUM_GAMES, num_games))
    /\ receiver' = "caller"
    /\ UNCHANGED <<num_games, config, processed, num_parallel, game_threads,
                   spawned, played, remaining>>

\* while remaining.load(Ordering::Acquire) > 0
PolicyLoad(t) ==
    /\ game_threads[t].pc = "load"
    /\ game_threads' = [game_threads EXCEPT ![t].pc =
            IF remaining > 0 THEN "fetch_sub" ELSE "done"]
    /\ UNCHANGED <<num_games, config, processed, num_parallel, spawned, played,
                   receiver, remaining>>

\* remaining.fetch_sub(1, Ordering::AcqRel), which wraps around
PolicyFetchSub(t) ==
    /\ game_threads[t].pc = "fetch_sub"
    /\ remaining' = (remaining - 1) % (2 ^ UsizeBits)
    /\ game_threads' = [game_threads EXCEPT ![t].pc = "play"]
    /\ UNCHANGED <<num_games, config, processed, num_parallel, spawned, played,
                   receiver>>

\* let result = policy_play_one(&server)
PolicyPlayOne(t) ==
    /\ game_threads[t].pc = "play"
    /\ played < MaxPlayed
    /\ played' = played + 1
    /\ game_threads' = [game_threads EXCEPT ![t].pc = "send"]
    /\ UNCHANGED <<num_games, config, processed, num_parallel, spawned, receiver,
                   remaining>>

\* if sender.send(result).is_err() { break }
PolicySend(t) ==
    /\ game_threads[t].pc = "send"
    /\ game_threads' = [game_threads EXCEPT ![t].pc =
            IF receiver = "dropped" THEN "done" ELSE "load"]
    /\ UNCHANGED <<num_games, config, processed, num_parallel, spawned, played,
                   receiver, remaining>>

NextPolicyPlay ==
    /\ \/ SpawnPolicy
       \/ ReturnPolicyPlay
       \/ DropReceiver /\ UNCHANGED remaining
       \/ \E t \in DOMAIN game_threads : \/ PolicyLoad(t)
                                         \/ PolicyFetchSub(t)
                                         \/ PolicyPlayOne(t)
                                         \/ PolicySend(t)
    /\ UNCHANGED <<search_vars, driver_vars, policy_vars, pool_vars>>

SpecPolicyPlay == InitPolicyPlay /\ [][NextPolicyPlay]_vars

\* C40: the threads of policy_play play at most num_games games, and the
\* remaining counter never wraps around: it stays between 0 and num_games
C40_AsStated ==
    /\ played <= num_games
    /\ remaining <= num_games

====
